---- MODULE Spec2Model ----
(***************************************************************************)
(* Memory Indexing & Verification Engine of BetterHalf.ai.                 *)
(*                                                                         *)
(* MemoryIndexer (src/app/api/test-kv/route.ts, class MemoryIndexer),      *)
(* ZGIndexingService (src/unnamed/part_008) and the MemoryRegistry         *)
(* contract (src/contracts/MemoryRegistry.sol, second contract of the      *)
(* file: the one with 0G Storage integration that the ABI of               *)
(* ZGIndexingService calls).                                               *)
(*                                                                         *)
(* JavaScript is single-threaded: the code between two awaits runs as one  *)
(* step.  Every asynchronous MemoryIndexer operation is therefore a start  *)
(* action (the code up to its first await, `await ensureInitialized()`)    *)
(* and a run action (the code after it).  Calls that have started and not  *)
(* finished are the records of `inflight`.                                 *)
(***************************************************************************)
EXTENDS Integers, Sequences, FiniteSets, TLC

\* ------------------------------------------------------------------ bounds

\* Number of MemoryIndexer API calls a behaviour may start: of the
\* specifications of ingest, reads and batches, and of the specifications
\* with verification (a re-index after a verification takes three calls).
MaxOps == 2
MaxLedgerOps == 3
\* Number of calls that may be suspended at an await at the same time.
MaxInflight == 2

\* Largest length of the vectors whose similarity is computed, and number of
\* similarity computations of a behaviour.
MaxDim == 2
MaxComparisons == 1
\* The largest topK of a similarity search.
MaxTopK == 2

\* The contract's batch limit: require(hashes.length <= 50, "Batch too large").
BatchLimit == 50

\* ------------------------------------------------------------------ strings

\* Tags are sequences of characters, so that toLowerCase() and includes()
\* are computed, not assumed.
TagUi == <<"u", "i">>
TagUI == <<"U", "I">>
TagU == <<"u">>
TagPref == <<"p">>
NoTag == <<>>

ToLowerChar(c) == CASE c = "U" -> "u" [] c = "I" -> "i" [] OTHER -> c

\* String.prototype.toLowerCase
ToLower(s) == [i \in 1..Len(s) |-> ToLowerChar(s[i])]

\* String.prototype.includes
Includes(s, sub) ==
  \E i \in 0..(Len(s) - Len(sub)) : SubSeq(s, i + 1, i + Len(sub)) = sub

\* The UTF-16 code unit of a character: the order of Array.prototype.sort().
CodeUnit(c) ==
  CASE c = "I" -> 73 [] c = "U" -> 85 [] c = "i" -> 105 [] c = "p" -> 112
    [] c = "u" -> 117 [] OTHER -> 0

\* a < b in the default sort order of strings.
TagLess(a, b) ==
  \E k \in 1..(Len(a) + 1) :
    /\ k <= Len(b)
    /\ \A j \in 1..(k - 1) : a[j] = b[j]
    /\ k > Len(a) \/ CodeUnit(a[k]) < CodeUnit(b[k])

RECURSIVE SortTags(_)
\* Array.from(set).sort()
SortTags(S) ==
  IF S = {} THEN <<>>
  ELSE LET m == CHOOSE x \in S : \A y \in S \ {x} : TagLess(x, y)
       IN <<m>> \o SortTags(S \ {m})

\* toLowerCase on the content-type strings of the model.
LowerType(t) == CASE t = "Conversation" -> "conversation" [] OTHER -> t

\* Absent string (undefined / '' / bytes32(0)): falsy in JavaScript.
None == ""

\* ------------------------------------------------------------------ data

\* ethers.keccak256(ethers.toUtf8Bytes(content)): a function of the content
\* only, injective on the contents of the model, never bytes32(0).
Keccak(content) == CASE content = "c1" -> "h1" [] content = "c2" -> "h2"

Hashes == {"h1", "h2"}

\* The account of the signer (msg.sender of every transaction of the service)
\* and another agent's account.
Signer == "0xA"
Agents == {Signer, "0xB"}

\* ethers resolves a non-address string through ENS, which fails on this chain.
IsAddress(s) == s = Signer

\* generateContentHash: the hex SHA-256 digest of the content, a function of
\* the content only, injective on the contents of the model, never ''.
GenerateContentHash(content) ==
  CASE content = "c1" -> "s1" [] content = "c2" -> "s2" [] OTHER -> "s0"

\* new Date() at the time of a call, and a date a caller passes in.
Now == "now"
OtherDate == "other date"

\* MemoryEntry: the fields the indexer and the memory service read. A record
\* handed in by a caller carries the digest of its content as
\* metadata.checksum.
Mem(id, content, type, tags, owner, blobId, ipfsHash) ==
  [id |-> id, content |-> content, type |-> type, tags |-> tags,
   owner |-> owner, blobId |-> blobId, ipfsHash |-> ipfsHash,
   size |-> IF content = "c1" THEN 2 ELSE 3, transactionHash |-> None,
   checksum |-> GenerateContentHash(content), createdAt |-> Now]

\* m1 stored in the blob store (metadata.blobId set).
RA == Mem("m1", "c1", "conversation", <<TagUi, TagPref>>, "agent-1", "b1", None)
\* m1 after a content update: same id, new content, new blob.
RB == Mem("m1", "c2", "conversation", <<TagUi>>, "agent-1", "b2", None)
\* m2 as MemoryService.createMemory leaves it when the blob upload failed:
\* ipfsHash = id, no blobId.
RC == Mem("m2", "c2", "document", <<TagUI>>, "agent-2", None, "m2")
\* m2 with the same content as m1, known by its secondary reference only.
RD == Mem("m2", "c1", "document", <<TagUi>>, "0xA", None, "b3")

Records == {RA, RB, RC, RD}
Ids == {"m1", "m2"}
\* A third memory, for the similarity search, and the ids the indices may hold.
RE == Mem("m3", "c2", "text", <<TagPref>>, "agent-1", "b3", None)
IndexedIds == Ids \cup {RE.id}
NoMem == Mem(None, "c1", None, <<>>, None, None, None)

Vectors == {<<>>, <<1, 0>>}

\* MemoryType -> contract content type.
GetContentType(m) ==
  IF m.type \in {"conversation", "document", "image", "preference"}
  THEN m.type ELSE "text"

ContentTypes == {"conversation", "document", "text"}
AllTagValues == {TagUi, TagUI, TagPref}

\* OGStorageService.uploadContent: the blob's content-addressed data id.
UploadDataId(content) == IF content = "c1" THEN "zg1" ELSE "zg2"

StorageIds == {"b1", "b2", "b3", "zg1", "zg2"}

\* ------------------------------------------------------------------ ledger

\* A slot of mapping(bytes32 => MemoryHash) that was never written.
ZeroMemoryHash ==
  [hash |-> None, agent |-> None, timestamp |-> 0, isActive |-> FALSE,
   zgStorageId |-> None, contentType |-> None, size |-> 0, tags |-> <<>>]

\* The contract's storage right after deployment.
EmptyLedger ==
  [memoryHashes |-> [h \in Hashes \cup {None} |-> ZeroMemoryHash],
   agentMemories |-> [a \in Agents |-> <<>>],
   verifiedHashes |-> {},
   zgStorageToHash |-> [s \in StorageIds \cup {None} |-> None],
   tagToHashes |-> [t \in AllTagValues |-> <<>>],
   contentTypeCount |-> [t \in ContentTypes |-> 0],
   allMemoryHashes |-> <<>>,
   allTags |-> <<>>]

\* One element of the parallel arrays of a commit.
CommitItem(m, zgStorageId) ==
  [hash |-> Keccak(m.content), zgStorageId |-> zgStorageId,
   contentType |-> GetContentType(m), size |-> m.size, tags |-> m.tags]

InSeq(x, s) == \E i \in 1..Len(s) : s[i] = x

\* _addTagIfNew
AddTagIfNew(allTags, tag) == IF InSeq(tag, allTags) THEN allTags ELSE Append(allTags, tag)

RECURSIVE IndexTags(_, _, _)
\* The tag loop of a commit: tagToHashes[tags[i]].push(hash); _addTagIfNew.
IndexTags(L, hash, tags) ==
  IF tags = <<>> THEN L
  ELSE IndexTags(
         [L EXCEPT !.tagToHashes[Head(tags)] = Append(@, hash),
                   !.allTags = AddTagIfNew(@, Head(tags))],
         hash, Tail(tags))

\* block.timestamp of the transaction that is mined on ledger L: block time
\* grows with every block, so a later commit has a later time; it is counted
\* in commits.
BlockTimestamp(L) == Len(L.allMemoryHashes) + 1

\* The writes of a commit of one new hash (body of commitMemoryHash and of the
\* loop of batchCommitMemoryHashes).
StoreMemoryHash(L, sender, it) ==
  IndexTags(
    [L EXCEPT !.memoryHashes[it.hash] =
                 [hash |-> it.hash, agent |-> sender,
                  timestamp |-> BlockTimestamp(L), isActive |-> TRUE,
                  zgStorageId |-> it.zgStorageId, contentType |-> it.contentType,
                  size |-> it.size, tags |-> it.tags],
              !.agentMemories[sender] = Append(@, it.hash),
              !.allMemoryHashes = Append(@, it.hash),
              !.zgStorageToHash[it.zgStorageId] = it.hash,
              !.contentTypeCount[it.contentType] = @ + 1],
    it.hash, it.tags)

\* Fault: a commitMemoryHash that accepts a hash that has a record
\* (idempotent-merge).
CommitAcceptedMerge(L, it) == it.hash # None /\ it.zgStorageId # None

\* The require()s of commitMemoryHash.
CommitAccepted(L, it) ==
  /\ it.hash # None
  /\ L.memoryHashes[it.hash].hash = None
  /\ it.zgStorageId # None

\* commitMemoryHash: the ledger after the call (unchanged when it reverts).
CommitMemoryHash(L, sender, it) ==
  IF CommitAccepted(L, it) THEN StoreMemoryHash(L, sender, it) ELSE L

\* The require()s of batchCommitMemoryHashes on n hashes (the service builds
\* the parallel arrays from one list, so their lengths agree).
BatchAccepted(n) == n > 0 /\ n <= BatchLimit

\* Fault: a loop of batchCommitMemoryHashes that stores every hash.
BatchStoresAlways(L, it) == TRUE

\* The test of the loop of batchCommitMemoryHashes: only a hash that has no
\* record yet is stored.
BatchStores(L, it) == L.memoryHashes[it.hash].hash = None

RECURSIVE BatchLoop(_, _, _)
\* The loop of batchCommitMemoryHashes.
BatchLoop(L, sender, items) ==
  IF items = <<>> THEN L
  ELSE BatchLoop(
         IF BatchStores(L, Head(items))
         THEN StoreMemoryHash(L, sender, Head(items)) ELSE L,
         sender, Tail(items))

\* batchCommitMemoryHashes
BatchCommitMemoryHashes(L, sender, items) ==
  IF BatchAccepted(Len(items)) THEN BatchLoop(L, sender, items) ELSE L

\* The require()s of verifyMemoryHash (onlyActiveHash, hash exists).
VerifyAccepted(L, h) ==
  /\ h \in Hashes
  /\ L.memoryHashes[h].isActive
  /\ L.memoryHashes[h].hash # None

\* Fault: a verifyMemoryHash that flips the flag.
VerifyMemoryHashToggle(L, h) ==
  IF h \in L.verifiedHashes
  THEN [L EXCEPT !.verifiedHashes = @ \ {h}]
  ELSE [L EXCEPT !.verifiedHashes = @ \cup {h}]

\* verifyMemoryHash
VerifyMemoryHash(L, h) ==
  IF VerifyAccepted(L, h) THEN [L EXCEPT !.verifiedHashes = @ \cup {h}] ELSE L

\* Fault: a revokeMemoryHash that any sender may call.
RevokeAcceptedAnyone(L, sender, h) == h \in Hashes /\ L.memoryHashes[h].isActive

\* The modifiers of revokeMemoryHash and updateZGStorageId: onlyActiveHash,
\* onlyHashOwner.
RevokeAccepted(L, sender, h) ==
  /\ h \in Hashes
  /\ L.memoryHashes[h].isActive
  /\ L.memoryHashes[h].agent = sender

\* Fault: a revokeMemoryHash that deletes the record.
RevokeMemoryHashDeletes(L, sender, h) ==
  IF RevokeAccepted(L, sender, h)
  THEN [L EXCEPT !.memoryHashes[h] = ZeroMemoryHash,
                 !.allMemoryHashes = SelectSeq(@, LAMBDA x : x # h)]
  ELSE L

\* revokeMemoryHash
RevokeMemoryHash(L, sender, h) ==
  IF RevokeAccepted(L, sender, h)
  THEN [L EXCEPT !.memoryHashes[h].isActive = FALSE]
  ELSE L

\* The modifiers and the require() of updateZGStorageId.
UpdateAccepted(L, sender, h, newZgStorageId) ==
  RevokeAccepted(L, sender, h) /\ newZgStorageId # None

\* updateZGStorageId: the old mapping is deleted, the record and the new
\* mapping are written.
UpdateZGStorageId(L, sender, h, newZgStorageId) ==
  IF UpdateAccepted(L, sender, h, newZgStorageId)
  THEN LET old == L.memoryHashes[h].zgStorageId
           cleared == IF old # None THEN [L EXCEPT !.zgStorageToHash[old] = None]
                      ELSE L
       IN [cleared EXCEPT !.memoryHashes[h].zgStorageId = newZgStorageId,
                          !.zgStorageToHash[newZgStorageId] = h]
  ELSE L

\* getMemoryStats
GetMemoryStats(L) ==
  LET all == L.allMemoryHashes
      active == {i \in 1..Len(all) : L.memoryHashes[all[i]].isActive}
      RECURSIVE SizeSum(_)
      SizeSum(I) == IF I = {} THEN 0
                    ELSE LET i == CHOOSE j \in I : TRUE
                         IN L.memoryHashes[all[i]].size + SizeSum(I \ {i})
  IN [totalMemories |-> Len(all),
      activeMemories |-> Cardinality(active),
      verifiedMemories |-> Cardinality({i \in 1..Len(all) : all[i] \in L.verifiedHashes}),
      totalTags |-> Len(L.allTags),
      totalSize |-> SizeSum(active)]

\* The hashes of allMemoryHashes whose record has content type t, in order.
MatchesOfContentType(L, t) ==
  SelectSeq(L.allMemoryHashes, LAMBDA h : L.memoryHashes[h].contentType = t)

\* getMemoryHashesByContentType writes past the end of its result array,
\* which has contentTypeCount[t] slots, and reverts.
ContentTypeQueryReverts(L, t) ==
  Len(MatchesOfContentType(L, t)) > (IF t \in ContentTypes THEN L.contentTypeCount[t] ELSE 0)

\* getMemoryHashesByContentType: an array of contentTypeCount[t] slots, filled
\* from the front with the matching hashes; the slots left are bytes32(0).
HashesByContentType(L, t) ==
  LET matches == MatchesOfContentType(L, t) IN
  [i \in 1..(IF t \in ContentTypes THEN L.contentTypeCount[t] ELSE 0) |->
     IF i <= Len(matches) THEN matches[i] ELSE None]

\* ------------------------------------------------------------------ state

VARIABLES
  env,                    \* the runtime: window/localStorage, private key, contract address
  og_memory_index,        \* localStorage og_memory_index: the Local Metadata Index
  og_vector_index,        \* localStorage og_vector_index: the Local Vector Index
  og_index_config,        \* localStorage og_index_config: the index-config side-table
  zgIndexingService,      \* MemoryIndexer.zgIndexingService is not null
  initializationPromise,  \* MemoryIndexer.initializationPromise: "null", "pending", "resolved"
  config,                 \* ZGIndexingService.config is not null
  initializeCalls,        \* number of times MemoryIndexer.initialize() was called
  contract,               \* ZGIndexingService.contract is not null
  ledger,                 \* the storage of the MemoryRegistry contract
  inflight,               \* the calls suspended at an await
  ret,                    \* the promise the last step settled (NoRet: none): the call, its result, what it did
  opCount,                \* API calls started so far
  ogStorage,              \* the OGStorageService singleton: isInitialized, walrusStorage, indexer (and signer)
  memories                \* MemoryService.memories: the local cache of created memories

vars == <<env, og_memory_index, og_vector_index, og_index_config, zgIndexingService,
          initializationPromise, config, initializeCalls, contract, ledger, inflight,
          ret, opCount, ogStorage, memories>>

localVars == <<og_memory_index, og_vector_index, og_index_config>>
initVars == <<zgIndexingService, initializationPromise, config, initializeCalls>>
storeVars == <<ogStorage, memories>>

\* The runtimes the indexer is deployed in: the browser (window, localStorage)
\* and the server (API routes), with and without a private key and a contract
\* address.
Envs ==
  {[browser |-> TRUE, privateKey |-> TRUE, contractAddress |-> TRUE],
   [browser |-> TRUE, privateKey |-> FALSE, contractAddress |-> TRUE],
   [browser |-> TRUE, privateKey |-> TRUE, contractAddress |-> FALSE],
   [browser |-> FALSE, privateKey |-> TRUE, contractAddress |-> TRUE],
   [browser |-> FALSE, privateKey |-> FALSE, contractAddress |-> TRUE]}

\* An entry of og_index_config that was never written.
NoConfig ==
  [onChain |-> FALSE, transactionHash |-> None, contractHash |-> None,
   verified |-> FALSE]

\* Query criteria.
Crit(tag, contentType, agent, onChainOnly) ==
  [tag |-> tag, contentType |-> contentType, agent |-> agent,
   onChainOnly |-> onChainOnly]

NoCrit == Crit(NoTag, None, None, FALSE)

\* The criteria a behaviour queries with.
Criteria ==
  {Crit(NoTag, None, "agent-1", FALSE),
   Crit(TagUi, None, None, TRUE),
   Crit(TagU, "Conversation", None, FALSE),
   Crit(NoTag, "document", None, TRUE),
   Crit(NoTag, None, Signer, TRUE), Crit(NoTag, None, "agent-1", TRUE)}

\* A batch one record over the contract's limit.
Oversized == [i \in 1..(BatchLimit + 1) |-> IF i = 1 THEN RC ELSE RA]

\* The batches a behaviour indexes, by name: two new records, a record whose
\* hash is RA's with a new one, the same hash twice, and the oversized batch.
\* A suspended call holds the name of its batch.
SmallBatches == {"new", "dup", "twice"}
Batches == SmallBatches \cup {"oversized"}

BatchOf(name) ==
  CASE name = "new" -> <<RA, RC>>
    [] name = "dup" -> <<RD, RB>>
    [] name = "twice" -> <<RA, RD>>
    [] name = "oversized" -> Oversized
    [] OTHER -> <<>>

NoStats == [metadataCount |-> 0, vectorCount |-> 0, totalSize |-> 0]

\* The zero-filled statistics of getIndexingStats.
ZeroStats ==
  [totalMemories |-> 0, activeMemories |-> 0, verifiedMemories |-> 0,
   totalTags |-> 0, totalSize |-> 0]

\* A suspended call.
Call(op, mem, id, crit, batch, local, stats, net) ==
  [op |-> op, mem |-> mem, id |-> id, crit |-> crit, batch |-> batch,
   local |-> local, stats |-> stats, net |-> net,
   hadHash |-> id \in IndexedIds /\ og_index_config[id].contractHash # None]

\* A JavaScript number that results from dividing x by the product of the
\* square roots of p and q (x an integer, p and q sums of squares): NaN for
\* 0/0, an infinity for a nonzero x over 0, else the quotient, kept as its
\* three parts.
Quotient(x, p, q) ==
  [kind |-> IF p * q # 0 THEN "finite" ELSE IF x = 0 THEN "NaN" ELSE "Infinity",
   x |-> x, p |-> p, q |-> q]

\* The number 0.
Zero == Quotient(0, 1, 1)

\* No number: the result of no call.
NoNumber == [kind |-> "none", x |-> 0, p |-> 0, q |-> 0]

\* What a blob store call met and returned: the outcomes of the backends
\* during the call (walrusInitOk: WalrusStorageService.initialize does not
\* throw; walrusUploadOk: the PUT to the Walrus publisher succeeds;
\* zgAvailable: the 0G SDK is loaded, the private key is configured and an
\* indexer endpoint answers; zgUploadOk: the 0G merkle tree and upload
\* succeed), the backend that served the call and the storage id it returned.
Blob(walrusInitOk, walrusUploadOk, zgAvailable, zgUploadOk, backend, storageId) ==
  [walrusInitOk |-> walrusInitOk, walrusUploadOk |-> walrusUploadOk,
   zgAvailable |-> zgAvailable, zgUploadOk |-> zgUploadOk,
   backend |-> backend, storageId |-> storageId]

NoBlob == Blob(FALSE, FALSE, FALSE, FALSE, "none", None)

\* The OGStorageService as constructed.
NewOGStorage == [isInitialized |-> FALSE, walrusStorage |-> "null", indexer |-> FALSE]

\* A settled promise: the call (op, mem, id, crit, batch), what it returned
\* (result: the records of queryMemories; ok: the boolean of verifyMemory, the
\* success of an IndexingResult; successes: the number of successful results
\* of a batch; onChain:
\* whether getIndexStats returned an onChain section), whether it rejected
\* (threw), and what the call did on the way: local (the local filter result),
\* path (how the on-chain part ended), chainSids (the zgStorageIds of the
\* on-chain results), net (a ledger connection attempt), tx (a transaction or
\* read sent to the ledger), uploads (blob uploads attempted), spawned (the
\* detached addToOnChainIndex was started), stored (the metadata index was
\* written), hadHash (the id had a contractHash when the call started),
\* vector (the vector addToIndex was called with), chainStats (the onChain
\* section of getIndexStats, when onChain is set), blob (of a blob store
\* call), embedFailed (a generateEmbedding of the call threw), removed (the
\* local indices removeFromIndex found the id in), other and similarity (the
\* second vector and the result of cosineSimilarity), commitSids (the storage
\* ids of the commit or batch commit the call issued), sender and
\* hash (of a
\* transaction sent to the contract directly; hadHash and wasVerified: the
\* hash had a record, was verified, before the transaction).
NoUpdates == [f \in {} |-> None]

Ret(op, mem, id, crit, batch) ==
  [op |-> op, mem |-> mem, id |-> id, crit |-> crit, batch |-> batch,
   result |-> <<>>, ok |-> FALSE, successes |-> 0, onChain |-> FALSE,
   threw |-> FALSE, local |-> <<>>, path |-> "none", chainSids |-> {},
   net |-> FALSE, tx |-> FALSE, uploads |-> 0, spawned |-> FALSE,
   stored |-> FALSE, hadHash |-> FALSE, vector |-> <<>>,
   chainStats |-> ZeroStats, sender |-> None, hash |-> None,
   wasVerified |-> FALSE, blob |-> NoBlob, embedFailed |-> FALSE,
   removed |-> {}, other |-> <<>>, similarity |-> NoNumber, commitSids |-> {},
   updates |-> NoUpdates, topK |-> 0]

NoRet == Ret("none", NoMem, None, NoCrit, None)

Init ==
  /\ env \in Envs
  /\ og_memory_index = <<>>
  /\ og_vector_index = <<>>
  /\ og_index_config = [i \in IndexedIds |-> NoConfig]
  /\ zgIndexingService = FALSE
  /\ initializationPromise = "null"
  /\ config = FALSE
  /\ initializeCalls = 0
  /\ contract = FALSE
  /\ ledger = EmptyLedger
  /\ inflight = {}
  /\ ret = NoRet
  /\ opCount = 0
  /\ ogStorage = NewOGStorage
  /\ memories = <<>>

\* typeof window === 'undefined' || typeof localStorage === 'undefined'
NoLocalStorage == ~env.browser

\* ------------------------------------------------------------------ initialization

\* this.zgIndexingService?.isInitialized()
ServiceInitialized == zgIndexingService /\ config

\* this.initializationPromise = this.initialize(): initialize() runs up to its
\* first await (a return, or ZGIndexingService.initialize's connection test).
InitializeStart ==
  /\ initializeCalls' = initializeCalls + 1
  /\ IF NoLocalStorage /\ ~env.privateKey
     THEN /\ initializationPromise' = "resolved"
          /\ UNCHANGED <<zgIndexingService, config>>
     ELSE /\ zgIndexingService' = TRUE
          /\ IF ~env.privateKey \/ ~env.contractAddress
             THEN /\ initializationPromise' = "resolved"
                  /\ UNCHANGED config
             ELSE /\ config' = TRUE
                  /\ initializationPromise' = "pending"

\* Fault: an ensureInitialized that does not cache the promise.
EnsureInitializedUncached == InitializeStart

\* Fault: an ensureInitialized that initializes again when the last attempt
\* ended without a contract.
EnsureInitializedRetry ==
  IF initializationPromise = "pending" \/ (initializationPromise = "resolved" /\ contract)
  THEN UNCHANGED initVars
  ELSE InitializeStart

\* ensureInitialized, up to the await: the first caller runs initialize();
\* every later caller gets the cached promise.
EnsureInitialized ==
  IF initializationPromise # "null" THEN UNCHANGED initVars ELSE InitializeStart

\* Whether a call made now is the one that opens the ledger connection.
StartsConnection ==
  /\ initializationPromise = "null"
  /\ ~(NoLocalStorage /\ ~env.privateKey)
  /\ env.privateKey /\ env.contractAddress

\* How ZGIndexingService.initialize can end.
InitOutcomes == {"connected", "degraded", "storageFailed"}

\* The rest of ZGIndexingService.initialize and of MemoryIndexer.initialize:
\*   connected      the RPC answered and the blob storage initialized;
\*   degraded       the RPC (or the first storage init) failed, the storage
\*                  init of the catch block succeeded: contract = null;
\*   storageFailed  the storage init of the catch block threw: initialize
\*                  rethrows, MemoryIndexer.initialize sets the service null.
InitializeFinish(outcome) ==
  /\ initializationPromise = "pending"
  /\ initializationPromise' = "resolved"
  /\ contract' = (outcome = "connected")
  /\ zgIndexingService' = (outcome # "storageFailed")
  /\ ret' = NoRet
  /\ UNCHANGED <<env, storeVars, localVars, config, initializeCalls, ledger, inflight, opCount>>

\* ------------------------------------------------------------------ local indices

IdsOf(index) == {index[i].id : i \in 1..Len(index)}

\* Fault: an updateLocalMetadataIndex that does not write the list.
UpsertMetadataLost(index, m) == index

\* Fault: an updateLocalMetadataIndex that always unshifts.
UpsertMetadataUnshift(index, m) == <<m>> \o index

\* updateLocalMetadataIndex: replace in place, or unshift.
UpsertMetadata(index, m) ==
  IF m.id \in IdsOf(index)
  THEN [i \in 1..Len(index) |-> IF index[i].id = m.id THEN m ELSE index[i]]
  ELSE <<m>> \o index

\* findIndex(m => m.id === id), find(m => m.id === id): 0 when no memory has the id.
FindIndex(list, id) ==
  IF \E i \in 1..Len(list) : list[i].id = id
  THEN CHOOSE i \in 1..Len(list) :
         /\ list[i].id = id
         /\ \A j \in 1..(i - 1) : list[j].id # id
  ELSE 0

\* updateLocalVectorIndex: replace in place, or push.
UpsertVector(index, id, vector) ==
  LET e == [id |-> id, vector |-> vector] IN
  IF id \in IdsOf(index)
  THEN [i \in 1..Len(index) |-> IF index[i].id = id THEN e ELSE index[i]]
  ELSE Append(index, e)

\* updateIndexConfig: { ...currentConfig[memoryId], ...config }; a no-op
\* without localStorage.
MergeIndexed(cfg, id, transactionHash, contractHash) ==
  IF NoLocalStorage THEN cfg
  ELSE [cfg EXCEPT ![id] = [@ EXCEPT !.onChain = TRUE,
                                     !.transactionHash = transactionHash,
                                     !.contractHash = contractHash]]

MergeVerified(cfg, id) ==
  IF NoLocalStorage THEN cfg ELSE [cfg EXCEPT ![id].verified = TRUE]

\* ------------------------------------------------------------------ indexMemory

\* receipt.hash of the transaction that committed a hash.
TxHashOf(hash) == IF hash = "h1" THEN "t1" ELSE "t2"

\* memory.metadata?.blobId || memory.ipfsHash
StorageIdOf(m) == IF m.blobId # None THEN m.blobId ELSE m.ipfsHash

\* Fault: an upload test that takes the local id for a storage id.
NeedsUploadMissingOnly(m) == StorageIdOf(m) = None

\* !zgStorageId || zgStorageId === memory.id
NeedsUpload(m) == StorageIdOf(m) = None \/ StorageIdOf(m) = m.id

\* What indexMemory returns when the commit was not made or failed: the
\* "storage-only success" after the inner catch.
StorageOnlyResult(m) ==
  [success |-> TRUE, transactionHash |-> None, contractHash |-> Keccak(m.content)]

\* ZGIndexingService.indexMemory on ledger L. uploadOk: the blob upload
\* succeeds; txOk: the transaction reaches the chain and is mined unless the
\* contract reverts it.
IndexMemory(L, m, uploadOk, txOk) ==
  LET sid == IF NeedsUpload(m) THEN UploadDataId(m.content) ELSE StorageIdOf(m)
      it == CommitItem(m, sid)
      committed == contract /\ txOk /\ CommitAccepted(L, it)
  IN IF NeedsUpload(m) /\ ~uploadOk
     THEN [res |-> [success |-> FALSE, transactionHash |-> None, contractHash |-> None],
           ledger |-> L, uploads |-> 1, tx |-> FALSE, sids |-> {}]
     ELSE [res |-> IF committed
                   THEN [success |-> TRUE, transactionHash |-> TxHashOf(it.hash),
                         contractHash |-> it.hash]
                   ELSE StorageOnlyResult(m),
           ledger |-> IF committed THEN CommitMemoryHash(L, Signer, it) ELSE L,
           uploads |-> IF NeedsUpload(m) THEN 1 ELSE 0,
           tx |-> contract, sids |-> IF contract THEN {sid} ELSE {}]

\* ------------------------------------------------------------------ addToIndex

\* Fault: an addToIndex without its try/catch.
AddToIndexUncaught(metaThrows, vectorThrows) == metaThrows \/ vectorThrows

\* Whether addToIndex rejects when a local write throws: the catch of its try
\* block logs the error and the function returns.
AddToIndexThrows(metaThrows, vectorThrows) == FALSE

\* The body of addToIndex(memory, vector). metaOk, vectorOk:
\* localStorage.setItem of the metadata list, of the vector list, succeeds
\* (it throws when the quota is exceeded). A throw in the local phase is
\* caught and logged, and the detached addToOnChainIndex, later in the same
\* try block, is not started.
AddToIndexBody(m, vector, metaOk, vectorOk) ==
  LET metaThrows == ~NoLocalStorage /\ ~metaOk
      writesVector == ~metaThrows /\ vector # <<>> /\ ~NoLocalStorage
      vectorThrows == writesVector /\ ~vectorOk
      spawns == ~metaThrows /\ ~vectorThrows
  IN /\ spawns => Cardinality(inflight) < MaxInflight
     /\ opCount' = opCount + 1
     /\ og_memory_index' =
          IF NoLocalStorage \/ metaThrows THEN og_memory_index
          ELSE UpsertMetadata(og_memory_index, m)
     /\ og_vector_index' =
          IF writesVector /\ ~vectorThrows
          THEN UpsertVector(og_vector_index, m.id, vector)
          ELSE og_vector_index
     /\ IF spawns
        THEN /\ EnsureInitialized
             /\ inflight' = inflight \cup
                  {Call("add", m, m.id, NoCrit, None, <<>>, NoStats, StartsConnection)}
        ELSE UNCHANGED <<initVars, inflight>>
     /\ UNCHANGED <<env, og_index_config, contract, ledger>>

\* What the call op, which ran the body of addToIndex, did and how it
\* settled.
AddToIndexRet(op, m, vector, metaOk, vectorOk) ==
  LET metaThrows == ~NoLocalStorage /\ ~metaOk
      writesVector == ~metaThrows /\ vector # <<>> /\ ~NoLocalStorage
      vectorThrows == writesVector /\ ~vectorOk
      spawns == ~metaThrows /\ ~vectorThrows
  IN [Ret(op, m, m.id, NoCrit, None) EXCEPT
        !.spawned = spawns,
        !.stored = ~NoLocalStorage /\ ~metaThrows,
        !.vector = vector,
        !.threw = AddToIndexThrows(metaThrows, vectorThrows),
        !.net = spawns /\ StartsConnection]

\* A call of addToIndex(memory, vector).
AddToIndex(m, vector, metaOk, vectorOk) ==
  /\ AddToIndexBody(m, vector, metaOk, vectorOk)
  /\ ret' = AddToIndexRet("addToIndex", m, vector, metaOk, vectorOk)
  /\ UNCHANGED storeVars

\* memory.transactionHash = result.transactionHash, when the result has one:
\* the memory object addToIndex was called with is the one createMemory
\* pushed to this.memories, so the cache of the service shows the assignment
\* (the serialized copy in the Local Metadata Index does not).
SetTransactionHash(cache, m, transactionHash) ==
  IF transactionHash = None THEN cache
  ELSE [i \in 1..Len(cache) |->
          IF cache[i] = m THEN [m EXCEPT !.transactionHash = transactionHash]
          ELSE cache[i]]

\* Fault: an on-chain phase that takes the record out of the Local Metadata
\* Index when its attempt failed.
KeptLocallyUnlessFailed(index, id, succeeded) ==
  IF succeeded THEN index ELSE SelectSeq(index, LAMBDA m : m.id # id)

\* The Local Metadata Index after the on-chain phase of the record id:
\* addToOnChainIndex writes the index-config entry and the memory object it
\* was given, never the stored list.
KeptLocally(index, id, succeeded) == index

\* Fault: an on-chain phase that stays pending, to be run again, when its
\* attempt did not commit.
SettledRetry(pending, c, committed) == IF committed THEN pending \ {c} ELSE pending

\* The suspended calls after the on-chain phase of call c ran: the promise of
\* addToOnChainIndex settles after its one attempt, whatever the outcome.
Settled(pending, c, committed) == pending \ {c}

\* addToOnChainIndex after `await this.ensureInitialized()`.
AddToOnChainIndex(c, uploadOk, txOk) ==
  /\ c \in inflight /\ c.op = "add"
  /\ initializationPromise = "resolved"
  /\ inflight' = Settled(inflight, c,
                         /\ ServiceInitialized
                         /\ IndexMemory(ledger, c.mem, uploadOk, txOk).res.transactionHash # None)
  /\ og_memory_index' =
       KeptLocally(og_memory_index, c.id,
                   /\ ServiceInitialized
                   /\ IndexMemory(ledger, c.mem, uploadOk, txOk).res.transactionHash # None)
  /\ IF ~ServiceInitialized
     THEN /\ ret' = [Ret("addToOnChainIndex", c.mem, c.id, NoCrit, None) EXCEPT
                       !.path = "unavailable", !.net = c.net]
          /\ UNCHANGED <<ledger, og_index_config, memories>>
     ELSE LET r == IndexMemory(ledger, c.mem, uploadOk, txOk) IN
          /\ ledger' = r.ledger
          /\ memories' =
               IF r.res.success
               THEN SetTransactionHash(memories, c.mem, r.res.transactionHash)
               ELSE memories
          /\ og_index_config' =
               IF r.res.success
               THEN MergeIndexed(og_index_config, c.id, r.res.transactionHash,
                                 r.res.contractHash)
               ELSE og_index_config
          /\ ret' = [Ret("addToOnChainIndex", c.mem, c.id, NoCrit, None) EXCEPT
                       !.ok = r.res.success, !.net = c.net, !.tx = r.tx,
                       !.uploads = r.uploads, !.commitSids = r.sids,
                       !.path = IF ~r.res.success THEN "uploadFailed"
                                ELSE IF r.res.transactionHash # None THEN "chainOk"
                                ELSE IF contract THEN "chainErr" ELSE "degraded"]
  /\ UNCHANGED <<env, ogStorage, og_vector_index, initVars, contract, opCount>>

\* metadataIndex.filter(m => m.id !== memoryId)
FilterMetadata(index, id) == SelectSeq(index, LAMBDA m : m.id # id)

\* Fault: a removeFromIndex that leaves the vector list as it is.
FilterVectorsKept(index, id) == index

\* vectorIndex.filter(v => v.id !== memoryId)
FilterVectors(index, id) == SelectSeq(index, LAMBDA v : v.id # id)

\* removeFromIndex(memoryId): both lists are filtered; nothing is written
\* without localStorage.
RemoveFromIndex(id) ==
  /\ opCount' = opCount + 1
  /\ og_memory_index' = FilterMetadata(og_memory_index, id)
  /\ og_vector_index' = FilterVectors(og_vector_index, id)
  /\ ret' = [Ret("removeFromIndex", NoMem, id, NoCrit, None) EXCEPT
               !.removed = {n \in {"metadata", "vector"} :
                              id \in IdsOf(IF n = "metadata" THEN og_memory_index
                                           ELSE og_vector_index)}]
  /\ UNCHANGED <<env, storeVars, og_index_config, initVars, contract, ledger, inflight>>

\* ------------------------------------------------------------------ queryMemories

\* The local filters of queryMemories over the Local Metadata Index.
MatchesTag(m, tag) ==
  \E i \in 1..Len(m.tags) : Includes(ToLower(m.tags[i]), ToLower(tag))

MatchesContentType(m, contentType) == LowerType(m.type) = LowerType(contentType)

MatchesAgent(m, agent) == m.owner = agent

LocalFilter(index, crit) ==
  SelectSeq(index, LAMBDA m :
    /\ crit.tag # NoTag => MatchesTag(m, crit.tag)
    /\ crit.contentType # None => MatchesContentType(m, crit.contentType)
    /\ crit.agent # None => MatchesAgent(m, crit.agent))

\* ZGIndexingService.queryMemories, the contract reads: the first criterion
\* that is set decides the list of hashes.
OnChainHashes(L, crit) ==
  IF crit.tag # NoTag
  THEN IF crit.tag \in AllTagValues THEN L.tagToHashes[crit.tag] ELSE <<>>
  ELSE IF crit.contentType # None
       THEN HashesByContentType(L, crit.contentType)
       ELSE IF crit.agent # None THEN L.agentMemories[crit.agent] ELSE <<>>

\* A contract read of the query throws: the RPC fails, or the agent is not an
\* address (getAgentMemories is only reached when tag and contentType are unset).
OnChainQueryThrows(crit, chainOk) ==
  \/ ~chainOk
  \/ crit.tag = NoTag /\ crit.contentType # None
     /\ ContentTypeQueryReverts(ledger, crit.contentType)
  \/ crit.tag = NoTag /\ crit.contentType = None /\ crit.agent # None
     /\ ~IsAddress(crit.agent)

\* The zgStorageIds of the MemoryHash records ZGIndexingService.queryMemories
\* returns.
OnChainStorageIds(L, crit) ==
  LET hs == OnChainHashes(L, crit) IN {L.memoryHashes[hs[i]].zgStorageId : i \in 1..Len(hs)}

\* Fault: an onChainOnly filter that joins on the primary blob id only.
OnChainJoinBlobOnly(local, sids) == SelectSeq(local, LAMBDA m : m.blobId \in sids)

\* The onChainOnly filter: onChain.zgStorageId === local.metadata?.blobId ||
\* onChain.zgStorageId === local.ipfsHash for some on-chain result.
OnChainJoin(local, sids) ==
  SelectSeq(local, LAMBDA m : m.blobId \in sids \/ m.ipfsHash \in sids)

\* Fault: a queryMemories without the inner try/catch, which rejects when a
\* contract read throws.
QueryOutcomeUncaught(crit, local, chainOk) ==
  LET thrown == ServiceInitialized /\ contract /\ OnChainQueryThrows(crit, chainOk) IN
  [result |-> IF thrown THEN <<>> ELSE local, threw |-> thrown,
   path |-> IF thrown THEN "chainErr" ELSE "local", chainSids |-> {}]

\* Fault: a queryMemories that applies the on-chain filter to every query the
\* ledger answered.
QueryOutcomeJoins(crit, local, chainOk) ==
  IF ~ServiceInitialized
  THEN [result |-> local, threw |-> FALSE, path |-> "unavailable", chainSids |-> {}]
  ELSE IF ~contract
       THEN [result |-> OnChainJoin(local, {}), threw |-> FALSE, path |-> "degraded",
             chainSids |-> {}]
       ELSE IF OnChainQueryThrows(crit, chainOk)
            THEN [result |-> local, threw |-> FALSE, path |-> "chainErr",
                  chainSids |-> {}]
            ELSE LET sids == OnChainStorageIds(ledger, crit) IN
                 [result |-> OnChainJoin(local, sids), threw |-> FALSE,
                  path |-> "chainOk", chainSids |-> sids]

\* What the ledger part of queryMemories does with the on-chain results
\* (lines 483-505): a thrown ledger error is caught by the inner try and the
\* local results are returned.
QueryOutcome(crit, local, chainOk) ==
  IF ~ServiceInitialized
  THEN [result |-> local, threw |-> FALSE, path |-> "unavailable", chainSids |-> {}]
  ELSE IF ~contract
       THEN [result |-> IF crit.onChainOnly THEN OnChainJoin(local, {}) ELSE local,
             threw |-> FALSE, path |-> "degraded", chainSids |-> {}]
       ELSE IF OnChainQueryThrows(crit, chainOk)
            THEN [result |-> local, threw |-> FALSE, path |-> "chainErr",
                  chainSids |-> {}]
            ELSE LET sids == OnChainStorageIds(ledger, crit) IN
                 [result |-> IF crit.onChainOnly THEN OnChainJoin(local, sids)
                             ELSE local,
                  threw |-> FALSE, path |-> "chainOk", chainSids |-> sids]

\* queryMemories up to its first await; it returns the local results at once
\* when onChainOnly is unset and the service is not initialized.
QueryMemories(crit) ==
  LET local == LocalFilter(og_memory_index, crit) IN
  /\ opCount' = opCount + 1
  /\ IF crit.onChainOnly \/ ServiceInitialized
     THEN /\ Cardinality(inflight) < MaxInflight
          /\ EnsureInitialized
          /\ inflight' = inflight \cup
               {Call("query", NoMem, None, crit, None, local, NoStats, StartsConnection)}
          /\ ret' = NoRet
     ELSE /\ ret' = [Ret("queryMemories", NoMem, None, crit, None) EXCEPT
                       !.result = local, !.local = local, !.path = "local"]
          /\ UNCHANGED <<initVars, inflight>>
  /\ UNCHANGED <<env, storeVars, localVars, contract, ledger>>

\* queryMemories after `await this.ensureInitialized()`.
QueryMemoriesRun(c, chainOk) ==
  /\ c \in inflight /\ c.op = "query"
  /\ initializationPromise = "resolved"
  /\ inflight' = inflight \ {c}
  /\ LET o == QueryOutcome(c.crit, c.local, chainOk) IN
     ret' = [Ret("queryMemories", NoMem, None, c.crit, None) EXCEPT
               !.result = o.result, !.threw = o.threw, !.path = o.path,
               !.chainSids = o.chainSids, !.local = c.local, !.net = c.net,
               !.tx = (o.path \in {"chainErr", "chainOk"})]
  /\ UNCHANGED <<env, storeVars, localVars, initVars, contract, ledger, opCount>>

\* ------------------------------------------------------------------ verifyMemory

\* verifyMemory up to `await this.ensureInitialized()`.
VerifyMemory(id) ==
  /\ Cardinality(inflight) < MaxInflight
  /\ opCount' = opCount + 1
  /\ EnsureInitialized
  /\ inflight' = inflight \cup
       {Call("verify", NoMem, id, NoCrit, None, <<>>, NoStats, StartsConnection)}
  /\ ret' = NoRet
  /\ UNCHANGED <<env, storeVars, localVars, contract, ledger>>

\* verifyMemory after the await: the contractHash is looked up, then
\* ZGIndexingService.verifyMemory sends verifyMemoryHash (txOk: the
\* transaction is mined unless the contract reverts it).
VerifyMemoryRun(c, txOk) ==
  LET h == og_index_config[c.id].contractHash
      sends == ServiceInitialized /\ h # None /\ contract
      success == sends /\ txOk /\ VerifyAccepted(ledger, h)
  IN /\ c \in inflight /\ c.op = "verify"
     /\ initializationPromise = "resolved"
     /\ inflight' = inflight \ {c}
     /\ ledger' = IF success THEN VerifyMemoryHash(ledger, h) ELSE ledger
     /\ og_index_config' =
          IF success THEN MergeVerified(og_index_config, c.id) ELSE og_index_config
     /\ ret' = [Ret("verifyMemory", NoMem, c.id, NoCrit, None) EXCEPT
                  !.ok = success, !.net = c.net, !.tx = sends,
                  !.hadHash = c.hadHash,
                  !.path = IF ~ServiceInitialized THEN "unavailable"
                           ELSE IF h = None THEN "noHash"
                           ELSE IF ~contract THEN "degraded"
                           ELSE IF success THEN "chainOk" ELSE "chainErr"]
     /\ UNCHANGED <<env, storeVars, og_memory_index, og_vector_index, initVars, contract, opCount>>

\* ------------------------------------------------------------------ getIndexStats

RECURSIVE SumSizes(_)
\* metadataIndex.reduce((sum, m) => sum + (m.metadata?.size || 0), 0)
SumSizes(index) == IF index = <<>> THEN 0 ELSE Head(index).size + SumSizes(Tail(index))

\* getIndexStats up to `await this.ensureInitialized()`: the local counts.
GetIndexStats ==
  /\ Cardinality(inflight) < MaxInflight
  /\ opCount' = opCount + 1
  /\ EnsureInitialized
  /\ inflight' = inflight \cup
       {Call("stats", NoMem, None, NoCrit, None, <<>>,
             [metadataCount |-> Len(og_memory_index),
              vectorCount |-> Len(og_vector_index),
              totalSize |-> SumSizes(og_memory_index)],
             StartsConnection)}
  /\ ret' = NoRet
  /\ UNCHANGED <<env, storeVars, localVars, contract, ledger>>

\* ZGIndexingService.getIndexingStats: zeros without a contract and when
\* the read throws (chainOk: the read succeeds).
GetIndexingStats(L, chainOk) ==
  IF ~contract \/ ~chainOk THEN ZeroStats ELSE GetMemoryStats(L)

\* getIndexStats after the await: the onChain section is added when the
\* service is initialized; getIndexingStats returns zeros when the contract is
\* null or the read fails.
GetIndexStatsRun(c, chainOk) ==
  /\ c \in inflight /\ c.op = "stats"
  /\ initializationPromise = "resolved"
  /\ inflight' = inflight \ {c}
  /\ ret' = [Ret("getIndexStats", NoMem, None, NoCrit, None) EXCEPT
               !.onChain = ServiceInitialized, !.net = c.net,
               !.chainStats = IF ServiceInitialized
                              THEN GetIndexingStats(ledger, chainOk) ELSE ZeroStats,
               !.tx = ServiceInitialized /\ contract,
               !.path = IF ~ServiceInitialized THEN "unavailable"
                        ELSE IF ~contract THEN "degraded"
                        ELSE IF chainOk THEN "chainOk" ELSE "chainErr"]
  /\ UNCHANGED <<env, storeVars, localVars, initVars, contract, ledger, opCount>>

\* ------------------------------------------------------------------ getAllTags

\* The tags of the records of a metadata index.
LocalTags(index) ==
  UNION {{index[i].tags[j] : j \in 1..Len(index[i].tags)} : i \in 1..Len(index)}

\* Fault: a tag listing that leaves the tags of the ledger out.
OnChainTagsNone(L, chainOk) == {}

\* ZGIndexingService.getAllTags: [] without a contract and when the read
\* throws.
OnChainTags(L, chainOk) ==
  IF ~contract \/ ~chainOk THEN {} ELSE {L.allTags[i] : i \in 1..Len(L.allTags)}

\* getAllTags up to `await this.ensureInitialized()`: the metadata index is
\* read and its tags collected.
GetAllTags ==
  /\ Cardinality(inflight) < MaxInflight
  /\ opCount' = opCount + 1
  /\ EnsureInitialized
  /\ inflight' = inflight \cup
       {Call("tags", NoMem, None, NoCrit, None, og_memory_index, NoStats,
             StartsConnection)}
  /\ ret' = NoRet
  /\ UNCHANGED <<env, storeVars, localVars, contract, ledger>>

\* getAllTags after the await: the on-chain tags are added and the set is
\* returned sorted.
GetAllTagsRun(c, chainOk) ==
  /\ c \in inflight /\ c.op = "tags"
  /\ initializationPromise = "resolved"
  /\ inflight' = inflight \ {c}
  /\ ret' = [Ret("getAllTags", NoMem, None, NoCrit, None) EXCEPT
               !.result = SortTags(LocalTags(c.local) \cup
                                   (IF ServiceInitialized
                                    THEN OnChainTags(ledger, chainOk) ELSE {})),
               !.local = c.local, !.net = c.net,
               !.tx = ServiceInitialized /\ contract,
               !.path = IF ~ServiceInitialized THEN "unavailable"
                        ELSE IF ~contract THEN "degraded"
                        ELSE IF chainOk THEN "chainOk" ELSE "chainErr"]
  /\ UNCHANGED <<env, storeVars, localVars, initVars, contract, ledger, opCount>>

\* ------------------------------------------------------------------ batchIndexOnChain

\* receipt.hash of a batch transaction.
BatchTxHash == "t3"

FailedResult == [success |-> FALSE, transactionHash |-> None, contractHash |-> None]

\* The storage id batchIndexMemories commits a record with.
BatchStorageId(m) ==
  IF NeedsUpload(m) THEN UploadDataId(m.content) ELSE StorageIdOf(m)

\* Number of records of the batch whose content has to be uploaded.
UploadsNeeded(batch) == Cardinality({i \in 1..Len(batch) : NeedsUpload(batch[i])})

\* The parallel arrays batchIndexMemories builds.
BatchItems(batch) ==
  [i \in 1..Len(batch) |-> CommitItem(batch[i], BatchStorageId(batch[i]))]

\* ZGIndexingService.batchIndexMemories on ledger L. Without a contract every
\* record goes through indexMemory. With one, the blobs are uploaded (the
\* first failing upload throws), one batchCommitMemoryHashes transaction is
\* sent for the whole list, and every record gets the transaction's outcome.
BatchIndexMemories(L, batch, uploadOk, txOk) ==
  LET n == Len(batch)
      uploadThrows == ~uploadOk /\ \E i \in 1..n : NeedsUpload(batch[i])
  IN IF ~contract
     THEN [outcomes |-> [i \in 1..n |-> IndexMemory(L, batch[i], uploadOk, txOk).res],
           ledger |-> L, uploads |-> UploadsNeeded(batch), tx |-> FALSE, sids |-> {}]
     ELSE IF uploadThrows
          THEN [outcomes |-> [i \in 1..n |-> FailedResult],
                ledger |-> L, uploads |-> 1, tx |-> FALSE, sids |-> {}]
          ELSE IF txOk /\ BatchAccepted(n)
               THEN [outcomes |-> [i \in 1..n |->
                                     [success |-> TRUE, transactionHash |-> BatchTxHash,
                                      contractHash |-> Keccak(batch[i].content)]],
                     ledger |-> BatchCommitMemoryHashes(L, Signer, BatchItems(batch)),
                     uploads |-> UploadsNeeded(batch), tx |-> TRUE,
                     sids |-> {BatchStorageId(batch[i]) : i \in 1..n}]
               ELSE [outcomes |-> [i \in 1..n |-> FailedResult],
                     ledger |-> L, uploads |-> UploadsNeeded(batch), tx |-> TRUE,
                     sids |-> {BatchStorageId(batch[i]) : i \in 1..n}]

\* results.forEach: the index-config entry of every successful record is
\* merged in list order, so the entry of an id ends as the merge of the last
\* successful record that carries the id.
MergeResults(cfg, batch, outcomes) ==
  [id \in DOMAIN cfg |->
     LET hits == {i \in 1..Len(batch) : batch[i].id = id /\ outcomes[i].success}
     IN IF hits = {} THEN cfg[id]
        ELSE LET last == CHOOSE i \in hits : \A j \in hits : j <= i
             IN MergeIndexed(cfg, id, outcomes[last].transactionHash,
                             outcomes[last].contractHash)[id]]

\* batchIndexOnChain up to `await this.ensureInitialized()`.
BatchIndexOnChain(batch) ==
  /\ Cardinality(inflight) < MaxInflight
  /\ opCount' = opCount + 1
  /\ EnsureInitialized
  /\ inflight' = inflight \cup
       {Call("batch", NoMem, None, NoCrit, batch, <<>>, NoStats, StartsConnection)}
  /\ ret' = NoRet
  /\ UNCHANGED <<env, storeVars, localVars, contract, ledger>>

\* batchIndexOnChain after the await.
BatchIndexOnChainRun(c, uploadOk, txOk) ==
  /\ c \in inflight /\ c.op = "batch"
  /\ initializationPromise = "resolved"
  /\ inflight' = inflight \ {c}
  /\ IF ~ServiceInitialized
     THEN /\ ret' = [Ret("batchIndexOnChain", NoMem, None, NoCrit, c.batch) EXCEPT
                       !.path = "unavailable", !.net = c.net]
          /\ UNCHANGED <<ledger, og_index_config>>
     ELSE LET r == BatchIndexMemories(ledger, BatchOf(c.batch), uploadOk, txOk) IN
          /\ ledger' = r.ledger
          /\ og_index_config' = MergeResults(og_index_config, BatchOf(c.batch), r.outcomes)
          /\ ret' = [Ret("batchIndexOnChain", NoMem, None, NoCrit, c.batch) EXCEPT
                       !.successes =
                          Cardinality({i \in 1..Len(r.outcomes) : r.outcomes[i].success}),
                       !.net = c.net, !.tx = r.tx, !.uploads = r.uploads,
                       !.commitSids = r.sids,
                       !.path = IF ~contract THEN "degraded"
                                ELSE IF ~r.tx THEN "uploadFailed"
                                ELSE IF r.outcomes[1].success THEN "chainOk"
                                ELSE "chainErr"]
  /\ UNCHANGED <<env, storeVars, og_memory_index, og_vector_index, initVars, contract, opCount>>

\* ------------------------------------------------------------------ contract calls

\* The arguments of the commits other clients of the contract send: the
\* commit of each record of the model, and a commit without a storage id.
LedgerItems ==
  {CommitItem(m, BatchStorageId(m)) : m \in Records} \cup {CommitItem(RA, None)}

\* Elements of the arrays of a batch with the hash bytes32(0).
ZeroText ==
  [hash |-> None, zgStorageId |-> "b1", contentType |-> "text", size |-> 2, tags |-> <<TagUi>>]
ZeroDocument ==
  [hash |-> None, zgStorageId |-> "b2", contentType |-> "document", size |-> 2, tags |-> <<TagUi>>]

\* The arrays of the batches other clients of the contract send: a hash of
\* zero, and a hash without a storage id.
RawBatches == {<<ZeroText>>, <<ZeroDocument>>, <<CommitItem(RA, None)>>}

\* The new storage ids of updateZGStorageId calls.
NewStorageIds == {"b3", None}

\* A transaction sent to the contract by sender: what was called, with which
\* hash, and whether it was mined (ok) or reverted.
Tx(op, sender, hash, ok) ==
  [Ret(op, NoMem, None, NoCrit, None) EXCEPT
     !.ok = ok, !.tx = TRUE, !.sender = sender, !.hash = hash,
     !.hadHash = hash \in Hashes /\ ledger.memoryHashes[hash].hash # None,
     !.wasVerified = hash \in ledger.verifiedHashes]

\* commitMemoryHash sent by sender.
LedgerCommit(sender, it) ==
  /\ opCount' = opCount + 1
  /\ ledger' = CommitMemoryHash(ledger, sender, it)
  /\ ret' = Tx("commitMemoryHash", sender, it.hash, CommitAccepted(ledger, it))
  /\ UNCHANGED <<env, storeVars, localVars, initVars, contract, inflight>>

\* batchCommitMemoryHashes sent by sender, with the arrays of a batch.
LedgerBatchCommit(sender, b) ==
  /\ opCount' = opCount + 1
  /\ ledger' = BatchCommitMemoryHashes(ledger, sender, BatchItems(BatchOf(b)))
  /\ ret' = [Tx("batchCommitMemoryHashes", sender, None,
                BatchAccepted(Len(BatchOf(b)))) EXCEPT !.batch = b]
  /\ UNCHANGED <<env, storeVars, localVars, initVars, contract, inflight>>

\* batchCommitMemoryHashes sent by sender, with arrays of its own.
LedgerBatchCommitOf(sender, items) ==
  /\ opCount' = opCount + 1
  /\ ledger' = BatchCommitMemoryHashes(ledger, sender, items)
  /\ ret' = [Tx("batchCommitMemoryHashes", sender, items[1].hash,
                BatchAccepted(Len(items))) EXCEPT
               !.commitSids = {items[i].zgStorageId : i \in 1..Len(items)}]
  /\ UNCHANGED <<env, storeVars, localVars, initVars, contract, inflight>>

\* verifyMemoryHash sent by sender.
LedgerVerify(sender, h) ==
  /\ opCount' = opCount + 1
  /\ ledger' = VerifyMemoryHash(ledger, h)
  /\ ret' = Tx("verifyMemoryHash", sender, h, VerifyAccepted(ledger, h))
  /\ UNCHANGED <<env, storeVars, localVars, initVars, contract, inflight>>

\* revokeMemoryHash sent by sender.
LedgerRevoke(sender, h) ==
  /\ opCount' = opCount + 1
  /\ ledger' = RevokeMemoryHash(ledger, sender, h)
  /\ ret' = Tx("revokeMemoryHash", sender, h, RevokeAccepted(ledger, sender, h))
  /\ UNCHANGED <<env, storeVars, localVars, initVars, contract, inflight>>

\* updateZGStorageId sent by sender.
LedgerUpdate(sender, h, newZgStorageId) ==
  /\ opCount' = opCount + 1
  /\ ledger' = UpdateZGStorageId(ledger, sender, h, newZgStorageId)
  /\ ret' = Tx("updateZGStorageId", sender, h,
               UpdateAccepted(ledger, sender, h, newZgStorageId))
  /\ UNCHANGED <<env, storeVars, localVars, initVars, contract, inflight>>

\* ------------------------------------------------------------------ cosineSimilarity

RECURSIVE DotProduct(_, _)
\* The sums of the loop of cosineSimilarity, over two vectors of one length.
DotProduct(a, b) ==
  IF a = <<>> THEN 0 ELSE Head(a) * Head(b) + DotProduct(Tail(a), Tail(b))

\* cosineSimilarity(a, b): 0 for different lengths, else
\* dotProduct / (Math.sqrt(normA) * Math.sqrt(normB)).
CosineSimilarity(a, b) ==
  IF Len(a) # Len(b) THEN Zero
  ELSE Quotient(DotProduct(a, b), DotProduct(a, a), DotProduct(b, b))

\* The vectors a behaviour compares: every vector of at most MaxDim
\* coordinates 0 or 1.
SimilarityVectors == UNION {[1..n -> {0, 1}] : n \in 0..MaxDim}

\* A call of cosineSimilarity (by searchByVector, on the query vector and the
\* vector of an entry).
CosineSimilarityOf(a, b) ==
  /\ opCount' = opCount + 1
  /\ ret' = [Ret("cosineSimilarity", NoMem, None, NoCrit, None) EXCEPT
               !.vector = a, !.other = b, !.similarity = CosineSimilarity(a, b)]
  /\ UNCHANGED <<env, storeVars, localVars, initVars, contract, ledger, inflight>>

\* ------------------------------------------------------------------ searchByVector

\* a > b on JavaScript numbers: false when either is NaN.
Greater(a, b) ==
  /\ a.kind = "finite" /\ b.kind = "finite"
  /\ LET l == a.x * a.x * b.p * b.q
         r == b.x * b.x * a.p * a.q
     IN IF a.x >= 0
        THEN b.x < 0 \/ l > r
        ELSE b.x < 0 /\ l < r

\* The comparator (a, b) => b.similarity - a.similarity, as Array.prototype.sort
\* reads it: its sign, a NaN difference counting as +0.
CompareFn(a, b) == IF Greater(b, a) THEN 1 ELSE IF Greater(a, b) THEN 0 - 1 ELSE 0

\* The orders Array.prototype.sort may leave n entries with similarities sims
\* in, as the sequence of their old positions: the stable order by the
\* comparator when the comparator is consistent on the entries, and any
\* order (implementation-defined) when it is not, which a NaN among different
\* finite similarities makes it.
SortOrders(sims) ==
  LET n == Len(sims)
      c(i, j) == CompareFn(sims[i], sims[j])
      perms == {f \in [1..n -> 1..n] : \A i, j \in 1..n : f[i] = f[j] => i = j}
      consistent == \A i, j, k \in 1..n : (c(i, j) = 0 /\ c(j, k) = 0) => c(i, k) = 0
  IN IF consistent
     THEN {f \in perms : \A a, b \in 1..n :
             a < b => \/ c(f[a], f[b]) < 0
                      \/ c(f[a], f[b]) = 0 /\ f[a] < f[b]}
     ELSE perms

\* slice(0, topK), for topK >= 0.
Slice(s, topK) == SubSeq(s, 1, IF topK < Len(s) THEN topK ELSE Len(s))

\* The list searchByVector returns when sort leaves the entries in the given
\* order: the first topK entries, each replaced by the record of its id in
\* the metadata index, the entries without one dropped.
SearchResult(vectorIndex, metadataIndex, order, topK) ==
  LET sorted == [a \in 1..Len(vectorIndex) |-> vectorIndex[order[a]]]
      found == SelectSeq(Slice(sorted, topK), LAMBDA e : e.id \in IdsOf(metadataIndex))
  IN [i \in 1..Len(found) |-> metadataIndex[FindIndex(metadataIndex, found[i].id)]]

\* The vectors of the stored entries, and of the queries.
SearchVectors == {<<0, 0>>, <<1, 0>>, <<1, 1>>}
QueryVectors == {<<0, 0>>, <<1, 0>>}

\* searchByVector(queryVector, topK): both lists are empty without
\* localStorage; an empty vector index gives the empty list.
SearchByVector(queryVector, topK) ==
  LET vectorIndex == IF NoLocalStorage THEN <<>> ELSE og_vector_index
      metadataIndex == IF NoLocalStorage THEN <<>> ELSE og_memory_index
      sims == [i \in 1..Len(vectorIndex) |->
                 CosineSimilarity(queryVector, vectorIndex[i].vector)]
  IN /\ \E order \in SortOrders(sims) :
          ret' = [Ret("searchByVector", NoMem, None, NoCrit, None) EXCEPT
                    !.vector = queryVector, !.topK = topK,
                    !.result = SearchResult(vectorIndex, metadataIndex, order, topK)]
     /\ UNCHANGED <<env, storeVars, localVars, initVars, contract, ledger, inflight,
                    opCount>>

\* ------------------------------------------------------------------ blob store

Contents == {"c1", "c2"}

\* result.blobId of a Walrus upload, and the Sui object id that comes with it.
WalrusBlobId(content) == IF content = "c1" THEN "w1" ELSE "w2"
WalrusSuiRef(content) == IF content = "c1" THEN "s1" ELSE "s2"

\* tree.rootHash() of the file uploaded to 0G, and the hash of the upload
\* transaction.
ZgRootHash(content) == IF content = "c1" THEN "r1" ELSE "r2"
ZgUploadTx(content) == IF content = "c1" THEN "u1" ELSE "u2"

\* OGStorageService.initialize(): a new WalrusStorageService is assigned and
\* initialized; when that succeeds the function returns and 0G is not set up;
\* when it throws, 0G is set up if it is available, and the function throws
\* if it is not. S: the fields after the call.
OGStorageInitialize(S, walrusInitOk, zgAvailable) ==
  IF walrusInitOk
  THEN [S |-> [S EXCEPT !.walrusStorage = "initialized", !.isInitialized = TRUE],
        threw |-> FALSE]
  ELSE IF zgAvailable
  THEN [S |-> [S EXCEPT !.walrusStorage = "created", !.indexer = TRUE,
                        !.isInitialized = TRUE],
        threw |-> FALSE]
  ELSE [S |-> [S EXCEPT !.walrusStorage = "created"], threw |-> TRUE]

\* WalrusStorageService.storeBlob on a service in state w ("created": not
\* initialized yet): it initializes itself if needed, then uploads.
StoreBlob(w, walrusInitOk, walrusUploadOk) ==
  IF w = "created" /\ ~walrusInitOk
  THEN [w |-> "created", ok |-> FALSE]
  ELSE [w |-> "initialized", ok |-> walrusUploadOk]

\* What a failed storeEmbedding leaves.
StoreFailed(S) ==
  [S |-> S, ok |-> FALSE, backend |-> "none", storageId |-> None,
   transactionHash |-> None]

\* OGStorageService.storeEmbedding: initialize if needed; try Walrus if
\* this.walrusStorage is set; then 0G if this.indexer and this.signer are
\* set, else throw.
OGStoreEmbedding(S, content, walrusInitOk, walrusUploadOk, zgAvailable, zgUploadOk) ==
  LET init == IF S.isInitialized THEN [S |-> S, threw |-> FALSE]
              ELSE OGStorageInitialize(S, walrusInitOk, zgAvailable)
      S1 == init.S
      w == IF S1.walrusStorage # "null"
           THEN StoreBlob(S1.walrusStorage, walrusInitOk, walrusUploadOk)
           ELSE [w |-> "null", ok |-> FALSE]
      S2 == [S1 EXCEPT !.walrusStorage = w.w]
  IN IF init.threw THEN StoreFailed(S1)
     ELSE IF w.ok
     THEN [S |-> S2, ok |-> TRUE, backend |-> "walrus",
           storageId |-> WalrusBlobId(content),
           transactionHash |-> WalrusSuiRef(content)]
     ELSE IF S2.indexer /\ zgAvailable /\ zgUploadOk
     THEN [S |-> S2, ok |-> TRUE, backend |-> "0g",
           storageId |-> ZgRootHash(content),
           transactionHash |-> ZgUploadTx(content)]
     ELSE StoreFailed(S2)

\* A call of OGStorageService.storeEmbedding.
StoreEmbedding(content, walrusInitOk, walrusUploadOk, zgAvailable, zgUploadOk) ==
  LET r == OGStoreEmbedding(ogStorage, content, walrusInitOk, walrusUploadOk,
                            zgAvailable, zgUploadOk)
  IN /\ opCount' = opCount + 1
     /\ ogStorage' = r.S
     /\ ret' = [Ret("storeEmbedding", NoMem, None, NoCrit, None) EXCEPT
                  !.ok = r.ok, !.threw = ~r.ok,
                  !.blob = Blob(walrusInitOk, walrusUploadOk, zgAvailable, zgUploadOk,
                                r.backend, r.storageId)]
     /\ UNCHANGED <<env, localVars, initVars, contract, ledger, inflight, memories>>

\* ------------------------------------------------------------------ memory manager, memory service

\* The vector generateEmbedding returns (after truncation or padding to
\* maxVectorSize), and the vector of zeros.
EmbeddingVector == <<1, 0>>
ZeroVector == <<0, 0>>

\* MemoryManager.storeEmbedding: generateEmbedding, then
\* OGStorageService.storeEmbedding; any throw is rethrown.
ManagerStoreEmbedding(S, content, embedOk, walrusInitOk, walrusUploadOk, zgAvailable, zgUploadOk) ==
  IF embedOk
  THEN OGStoreEmbedding(S, content, walrusInitOk, walrusUploadOk, zgAvailable, zgUploadOk)
  ELSE StoreFailed(S)

\* A call of MemoryManager.storeEmbedding.
StoreEmbeddingOfManager(content, embedOk, walrusInitOk, walrusUploadOk, zgAvailable, zgUploadOk) ==
  LET r == ManagerStoreEmbedding(ogStorage, content, embedOk, walrusInitOk,
                                 walrusUploadOk, zgAvailable, zgUploadOk)
  IN /\ opCount' = opCount + 1
     /\ ogStorage' = r.S
     /\ ret' = [Ret("MemoryManager.storeEmbedding", NoMem, None, NoCrit, None) EXCEPT
                  !.ok = r.ok, !.threw = ~r.ok, !.embedFailed = ~embedOk,
                  !.blob = Blob(walrusInitOk, walrusUploadOk, zgAvailable, zgUploadOk,
                                r.backend, r.storageId)]
     /\ UNCHANGED <<env, localVars, initVars, contract, ledger, inflight, memories>>

\* uuidv4(): an id no memory has.
UsedIds == IdsOf(memories) \cup IdsOf(og_memory_index)
NewId == IF "m1" \notin UsedIds THEN "m1" ELSE "m2"

\* The memory createMemory builds from memoryData: ipfsHash is the new id,
\* the owner is 'local-user'.
NewMemory(id, data) ==
  [Mem(id, data.content, data.type, data.tags, "local-user", None, id) EXCEPT
     !.checksum = None, !.createdAt = Now]

\* The memory after the upload block of createMemory: transactionHash and
\* ipfsHash are taken from the result of storeEmbedding when they are set.
WithStorageInfo(m, r) ==
  IF r.ok
  THEN [m EXCEPT !.transactionHash = r.transactionHash, !.ipfsHash = r.storageId]
  ELSE m

\* MemoryService.createMemory(memoryData): the memory is pushed to
\* this.memories; generateEmbedding and MemoryManager.storeEmbedding run in a
\* try block whose catch only logs; then MemoryIndexer.addToIndex(memory,
\* embeddingVector) is awaited and the memory returned (a throw of addToIndex
\* is rethrown). embedOk: the
\* generateEmbedding of createMemory succeeds; storeEmbedOk: the one inside
\* storeEmbedding does.
CreateMemory(data, embedOk, storeEmbedOk, walrusInitOk, walrusUploadOk, zgAvailable, zgUploadOk, metaOk, vectorOk) ==
  LET id == NewId
      r == IF embedOk
           THEN ManagerStoreEmbedding(ogStorage, data.content, storeEmbedOk,
                  walrusInitOk, walrusUploadOk, zgAvailable, zgUploadOk)
           ELSE StoreFailed(ogStorage)
      memory == WithStorageInfo(NewMemory(id, data), r)
      embeddingVector == IF embedOk THEN EmbeddingVector ELSE <<>>
      added == AddToIndexRet("createMemory", memory, embeddingVector, metaOk, vectorOk)
  IN /\ id \notin UsedIds
     /\ memories' = Append(memories, memory)
     /\ ogStorage' = r.S
     /\ AddToIndexBody(memory, embeddingVector, metaOk, vectorOk)
     /\ ret' = [added EXCEPT !.ok = ~added.threw,
                         !.embedFailed = ~embedOk \/ ~storeEmbedOk,
                         !.blob = Blob(walrusInitOk, walrusUploadOk, zgAvailable,
                                       zgUploadOk, r.backend, r.storageId)]

\* Partial<MemoryEntry>: the fields a caller of updateMemory sets.
Updates ==
  {[content |-> "c2"], [tags |-> <<TagPref>>], [id |-> "m2"],
   [createdAt |-> OtherDate]}

\* { ...existingMemory, ...updates }: every field of updates replaces the
\* field of the memory.
Spread(m, updates) ==
  [f \in DOMAIN m \cup DOMAIN updates |->
     IF f \in DOMAIN updates THEN updates[f] ELSE m[f]]

\* MemoryService.updateMemory(memoryId, updates): throws when the id is not
\* in this.memories; otherwise the memory is replaced by the spread of the
\* old memory and the updates (with a new updatedAt) and the list saved;
\* when updates.content is set, MemoryManager.storeEmbedding is called in a
\* try block whose catch only logs. The updated memory is returned.
UpdateMemory(memoryId, updates, embedOk, walrusUploadOk) ==
  LET i == FindIndex(memories, memoryId)
      updatedMemory == Spread(memories[i], updates)
      hasContent == "content" \in DOMAIN updates /\ updates.content # None
      r == IF hasContent
           THEN ManagerStoreEmbedding(ogStorage, updates.content, embedOk, TRUE,
                                      walrusUploadOk, FALSE, FALSE)
           ELSE StoreFailed(ogStorage)
  IN /\ opCount' = opCount + 1
     /\ IF i = 0
        THEN /\ ret' = [Ret("updateMemory", NoMem, memoryId, NoCrit, None) EXCEPT
                          !.threw = TRUE, !.updates = updates]
             /\ UNCHANGED storeVars
        ELSE /\ memories' = [memories EXCEPT ![i] = updatedMemory]
             /\ ogStorage' = r.S
             /\ ret' = [Ret("updateMemory", updatedMemory, memoryId, NoCrit, None) EXCEPT
                          !.ok = TRUE, !.updates = updates,
                          !.embedFailed = hasContent /\ ~r.ok]
     /\ UNCHANGED <<env, localVars, initVars, contract, ledger, inflight>>

\* MemoryService.deleteMemory(memoryId): false when the id is not in
\* this.memories; otherwise the memory is spliced out of the list, the list
\* saved, and true returned.
DeleteMemory(memoryId) ==
  LET i == FindIndex(memories, memoryId)
  IN /\ opCount' = opCount + 1
     /\ memories' = IF i = 0 THEN memories
                    ELSE SubSeq(memories, 1, i - 1) \o SubSeq(memories, i + 1, Len(memories))
     /\ ret' = [Ret("deleteMemory", NoMem, memoryId, NoCrit, None) EXCEPT !.ok = (i # 0)]
     /\ UNCHANGED <<env, localVars, initVars, contract, ledger, inflight, ogStorage>>

\* ------------------------------------------------------------------ specifications

\* The detached on-chain phase of an ingest and the end of the ledger
\* initialization.
OnChainPhase ==
  \/ \E c \in inflight, uploadOk, txOk \in BOOLEAN : AddToOnChainIndex(c, uploadOk, txOk)
  \/ \E o \in InitOutcomes : InitializeFinish(o)

\* A call is started while fewer than n calls have been started.
Budget(n) == opCount < n

\* Ingest with and without a vector, with every outcome of the two writes.
IngestVectors ==
  \E m \in Records, v \in Vectors, metaOk, vectorOk \in BOOLEAN :
    AddToIndex(m, v, metaOk, vectorOk)

\* Ingest without a vector.
Ingest == \E m \in Records, metaOk \in BOOLEAN : AddToIndex(m, <<>>, metaOk, TRUE)

Removes == \E id \in Ids : RemoveFromIndex(id)

\* Queries and statistics: the calls, and their continuations.
Reads == (\E crit \in Criteria : QueryMemories(crit)) \/ GetIndexStats

ReadsRun ==
  \/ \E c \in inflight, chainOk \in BOOLEAN : QueryMemoriesRun(c, chainOk)
  \/ \E c \in inflight, chainOk \in BOOLEAN : GetIndexStatsRun(c, chainOk)

\* Verification.
Verifies == \E id \in Ids : VerifyMemory(id)

VerifiesRun == \E c \in inflight, txOk \in BOOLEAN : VerifyMemoryRun(c, txOk)

\* Batch indexing of the batches of B.
BatchesOf(B) == \E b \in B : BatchIndexOnChain(b)

BatchesRun ==
  \E c \in inflight, uploadOk, txOk \in BOOLEAN : BatchIndexOnChainRun(c, uploadOk, txOk)

\* The tag listing.
Tags == GetAllTags

\* Blob store uploads, with every outcome of the two backends.
StoreEmbeddings ==
  \E content \in Contents, walrusInitOk, walrusUploadOk, zgAvailable, zgUploadOk \in BOOLEAN :
    StoreEmbedding(content, walrusInitOk, walrusUploadOk, zgAvailable, zgUploadOk)

\* Stores through the memory manager: Walrus initializes, 0G is not set up.
ManagerStores ==
  \E content \in Contents, embedOk, walrusUploadOk \in BOOLEAN :
    StoreEmbeddingOfManager(content, embedOk, TRUE, walrusUploadOk, FALSE, FALSE)

\* Memory creation, with every outcome of the two embeddings, of the Walrus
\* upload and of the metadata write.
Creates ==
  \E data \in {RA, RC}, embedOk, storeEmbedOk, walrusUploadOk, metaOk \in BOOLEAN :
    CreateMemory(data, embedOk, storeEmbedOk, TRUE, walrusUploadOk, FALSE, FALSE,
                 metaOk, TRUE)

\* Memory creation with the uploads succeeding or not.
ServiceCreates ==
  \E data \in {RA, RC}, embedOk, walrusUploadOk \in BOOLEAN :
    CreateMemory(data, embedOk, embedOk, TRUE, walrusUploadOk, FALSE, FALSE, TRUE, TRUE)

ServiceUpdates ==
  \E id \in Ids, updates \in Updates, embedOk, walrusUploadOk \in BOOLEAN :
    UpdateMemory(id, updates, embedOk, walrusUploadOk)

ServiceDeletes == \E id \in Ids : DeleteMemory(id)

\* Ingest of three memories with a vector, and similarity searches.
SearchIngest ==
  \E m \in {RA, RC, RE}, v \in SearchVectors : AddToIndex(m, v, TRUE, TRUE)

Searches == \E q \in QueryVectors, topK \in 0..MaxTopK : SearchByVector(q, topK)

\* Similarity computations.
Similarities == \E a, b \in SimilarityVectors : CosineSimilarityOf(a, b)

\* Transactions of the agents, sent to the contract directly.
LedgerCalls ==
  \/ \E a \in Agents, it \in LedgerItems : LedgerCommit(a, it)
  \/ \E a \in Agents, b \in SmallBatches : LedgerBatchCommit(a, b)
  \/ \E a \in Agents, h \in Hashes : LedgerVerify(a, h)
  \/ \E a \in Agents, h \in Hashes : LedgerRevoke(a, h)
  \/ \E a \in Agents, h \in Hashes, sid \in NewStorageIds : LedgerUpdate(a, h, sid)

TagsRun == \E c \in inflight, chainOk \in BOOLEAN : GetAllTagsRun(c, chainOk)

Next ==
  \/ Budget(MaxOps) /\ (IngestVectors \/ Removes \/ Reads \/ Verifies \/ BatchesOf(Batches)
                         \/ Tags)
  \/ Budget(MaxOps) /\ LedgerCalls
  \/ Budget(MaxOps) /\ (StoreEmbeddings \/ ManagerStores \/ Creates)
  \/ Budget(MaxComparisons) /\ Similarities
  \/ OnChainPhase \/ ReadsRun \/ VerifiesRun \/ BatchesRun \/ TagsRun

\* Every operation of the indexer.
Spec == Init /\ [][Next]_vars

\* Ingest (both local indices) and removal.
SpecIngest ==
  Init /\ [][(Budget(MaxOps) /\ (IngestVectors \/ Removes)) \/ OnChainPhase]_vars

\* Ingest with queries and statistics.
SpecQuery ==
  Init /\ [][(Budget(MaxOps) /\ (Ingest \/ Reads)) \/ OnChainPhase \/ ReadsRun]_vars

\* Ingest with batch indexing, batches within the contract's limit.
SpecBatch ==
  Init /\ [][(Budget(MaxOps) /\ (Ingest \/ BatchesOf(SmallBatches)))
             \/ OnChainPhase \/ BatchesRun]_vars

\* Ingest with batch indexing, the oversized batch included.
SpecOversized ==
  Init /\ [][(Budget(MaxOps) /\ (Ingest \/ BatchesOf(Batches)))
             \/ OnChainPhase \/ BatchesRun]_vars

\* Every kind of call of the indexer that awaits the initialization.
SpecInit ==
  Init /\ [][(Budget(MaxOps) /\ (Ingest \/ Reads \/ Verifies \/ BatchesOf({"new"}) \/ Tags))
             \/ OnChainPhase \/ ReadsRun \/ VerifiesRun \/ BatchesRun \/ TagsRun]_vars

\* Ingest with the tag listing.
SpecTags ==
  Init /\ [][(Budget(MaxOps) /\ (Ingest \/ Tags)) \/ OnChainPhase \/ TagsRun]_vars

\* The runtime with localStorage, a private key and a contract address.
InitBrowser == Init /\ env.browser /\ env.privateKey /\ env.contractAddress

\* The contract under the transactions of two agents.
SpecLedger == InitBrowser /\ [][Budget(MaxLedgerOps) /\ LedgerCalls]_vars

\* The contract under the transactions of two agents and of the indexer, with
\* local ingest and removal.
SpecAppend ==
  InitBrowser /\ [][(Budget(MaxOps) /\ (LedgerCalls \/ Ingest \/ Removes))
                    \/ OnChainPhase]_vars

\* The similarity of vectors.
SpecSimilarity == Init /\ [][Budget(MaxComparisons) /\ Similarities]_vars

\* The blob store adapter.
SpecBlob == Init /\ [][Budget(MaxOps) /\ StoreEmbeddings]_vars

\* Memory creation and stores through the memory manager, with the detached
\* on-chain phase.
SpecCreate ==
  Init /\ [][(Budget(MaxOps) /\ (Creates \/ ManagerStores)) \/ OnChainPhase]_vars

\* The memory service: creation, update and deletion, with the detached
\* on-chain phase.
SpecService ==
  Init /\ [][(Budget(MaxOps) /\ (ServiceCreates \/ ServiceUpdates \/ ServiceDeletes))
             \/ OnChainPhase]_vars

\* A browser without a private key: the indexing service is never initialized.
InitLocal == Init /\ env.browser /\ ~env.privateKey

\* The detached on-chain phase of an ingest.
OnChainAdds ==
  \E c \in inflight, uploadOk, txOk \in BOOLEAN : AddToOnChainIndex(c, uploadOk, txOk)

\* Ingest with similarity search; a search writes nothing.
SpecSearch ==
  InitLocal /\ [][(Budget(MaxLedgerOps) /\ SearchIngest) \/ Searches \/ OnChainAdds]_vars

\* The commits of the agents, with the arrays of the service and their own.
Commits ==
  \/ \E a \in Agents, it \in LedgerItems : LedgerCommit(a, it)
  \/ \E a \in Agents, b \in SmallBatches : LedgerBatchCommit(a, b)
  \/ \E a \in Agents, items \in RawBatches : LedgerBatchCommitOf(a, items)

\* The contract under commits and batch commits.
SpecCommits == InitBrowser /\ [][Budget(MaxLedgerOps) /\ Commits]_vars

\* The contract under every transaction of the agents.
SpecRegistry == InitBrowser /\ [][Budget(MaxLedgerOps) /\ (LedgerCalls \/ Commits)]_vars

\* Ingest with verification.
SpecChain ==
  Init /\ [][(Budget(MaxLedgerOps) /\ (Ingest \/ Verifies))
             \/ OnChainPhase \/ VerifiesRun]_vars

\* ------------------------------------------------------------------ properties

\* The list queryMemories({agent: owner of m}) filters out of the Local
\* Metadata Index as it is now; without onChainOnly it is the list returned.
AgentQuery(m) == LocalFilter(og_memory_index, Crit(NoTag, None, m.owner, FALSE))

\* C1. Local-first availability: once addToIndex(record) has returned, a
\* queryMemories call with {agent: record.accessPolicy.owner} returns a list
\* that contains record.id, whatever the state of the ledger.
C1_LocalFirstAvailability ==
  ret.op = "addToIndex" => ret.id \in IdsOf(AgentQuery(ret.mem))

\* C2. When addToIndex returns having started its on-chain phase, the local
\* metadata and vector indices hold the record and the vector, and the
\* on-chain phase of the call is still suspended: the call did not wait for the
\* ledger initialization, the upload or the commit.
C2_LocalUpdateBeforeDetachedPhase ==
  (ret.op = "addToIndex" /\ ret.spawned) =>
    /\ \E c \in inflight : c.op = "add" /\ c.mem = ret.mem
    /\ ~NoLocalStorage =>
         /\ InSeq(ret.mem, og_memory_index)
         /\ ret.vector # <<>> =>
              InSeq([id |-> ret.id, vector |-> ret.vector], og_vector_index)

\* addToIndex returned, with a vector, in the browser, while the ledger
\* connection it opened is still being made.
C2_Witness ==
  /\ ret.op = "addToIndex" /\ ret.spawned /\ ret.net
  /\ initializationPromise = "pending"
  /\ ~NoLocalStorage /\ ret.vector # <<>>

\* C3. addToIndex, queryMemories and getIndexStats never reject: whether the
\* ledger initialization failed or a ledger call fails, each settles with a
\* value.
C3_NoExceptionToCaller ==
  ret.op \in {"addToIndex", "queryMemories", "getIndexStats"} => ~ret.threw

\* queryMemories settled after a contract read that threw.
C3_Witness ==
  ret.op = "queryMemories" /\ ret.path = "chainErr" /\ ret.tx /\ ~ret.threw

\* C4. The index-config side-table is faithful to the ledger: an entry has
\* onChain:true only if its contractHash was committed to the ledger.
C4_OnChainOnlyIfCommitted ==
  \A id \in Ids :
    og_index_config[id].onChain =>
      /\ og_index_config[id].contractHash \in Hashes
      /\ ledger.memoryHashes[og_index_config[id].contractHash].hash # None

\* C5. An entry is verified only if a verifyMemoryHash of the hash it holds now
\* as contractHash succeeded.
C5_VerifiedOnlyAfterVerify ==
  \A id \in Ids :
    og_index_config[id].verified =>
      og_index_config[id].contractHash \in ledger.verifiedHashes

\* C6. verifyMemory(id) for an id without a contractHash returns false without
\* a ledger connection attempt and without a verify transaction.
C6_NoHashNoNetworkCall ==
  (ret.op = "verifyMemory" /\ ~ret.hadHash
     /\ og_index_config[ret.id].contractHash = None) =>
    ~ret.ok /\ ~ret.net /\ ~ret.tx

\* The batch a settled batchIndexOnChain was called with.
BatchOfRet(r) == BatchOf(r.batch)

\* Number of occurrences of x in the sequence s.
Count(x, s) == Cardinality({i \in 1..Len(s) : s[i] = x})

\* What a mined batch leaves behind, on the ledger L before and Lp after it:
\* every outcome is a success, every hash of the batch has a record, a hash is
\* in allMemoryHashes once, and the records that existed are unchanged.
BatchTolerant(r, L, Lp) ==
  LET B == BatchOfRet(r) IN
  /\ ~r.threw
  /\ r.successes = Len(B)
  /\ \A i \in 1..Len(B) : Lp.memoryHashes[Keccak(B[i].content)].hash # None
  /\ \A h \in Hashes :
       /\ Count(h, Lp.allMemoryHashes) <= 1
       /\ L.memoryHashes[h].hash # None => Lp.memoryHashes[h] = L.memoryHashes[h]

\* Every record of the batch has an index-config entry that shows it on-chain.
BatchConfigured(r, cfg) ==
  LET B == BatchOfRet(r) IN
  \A i \in 1..Len(B) :
    /\ cfg[B[i].id].onChain
    /\ cfg[B[i].id].contractHash = Keccak(B[i].content)
    /\ cfg[B[i].id].transactionHash = BatchTxHash

\* A batchIndexOnChain of 1..50 records settles in this step, its transaction
\* mined.
BatchMined ==
  /\ ret'.op = "batchIndexOnChain" /\ ret'.path = "chainOk"
  /\ Len(BatchOfRet(ret')) \in 1..BatchLimit

C8_OversizedRejectedBeforeSubmission ==
  (ret.op = "batchIndexOnChain" /\ Len(BatchOfRet(ret)) > BatchLimit) =>
    /\ ret.uploads = 0 /\ ~ret.tx /\ ret.successes = 0
    /\ \A id \in Ids : ~og_index_config[id].onChain

\* C9. queryMemories never propagates a ledger error: when the ledger query
\* fails or the registry is degraded or unavailable, it returns the locally
\* filtered results.
C9_QueryFallsBackToLocal ==
  (ret.op = "queryMemories" /\ ret.path \in {"chainErr", "degraded", "unavailable"}) =>
    ~ret.threw /\ ret.result = ret.local

\* The records of the sequence s.
Range(s) == {s[i] : i \in 1..Len(s)}

\* C10. With onChainOnly set and a successful ledger query, queryMemories
\* returns the local matches (ret.local, the list the call filtered out of the
\* Local Metadata Index before its await), in their order, whose blobId or
\* ipfsHash is the zgStorageId of an on-chain result.
C10_OnChainOnlyJoin ==
  (ret.op = "queryMemories" /\ ret.crit.onChainOnly /\ ret.path = "chainOk") =>
    LET hs == OnChainHashes(ledger, ret.crit)
        onChain(m) == \E i \in 1..Len(hs) :
                        \/ ledger.memoryHashes[hs[i]].zgStorageId = m.blobId
                        \/ ledger.memoryHashes[hs[i]].zgStorageId = m.ipfsHash
    IN /\ Range(ret.result) = {m \in Range(ret.local) : onChain(m)}
       /\ ret.result = SelectSeq(ret.local, LAMBDA m : m \in Range(ret.result))

\* An onChainOnly query returned a record it matched by its ipfsHash.
C10_Witness ==
  /\ ret.op = "queryMemories" /\ ret.crit.onChainOnly /\ ret.path = "chainOk"
  /\ \E m \in Range(ret.result) : m.blobId \notin ret.chainSids /\ m.ipfsHash \in ret.chainSids

\* C11. getIndexStats returns an onChain section only if the statistics were
\* read from the ledger: never with a degraded or unreachable registry, never
\* zero-filled in place of unavailable statistics.
C11_OnChainStatsOnlyIfRead ==
  (ret.op = "getIndexStats" /\ ret.onChain) =>
    ret.path = "chainOk" /\ ret.chainStats = GetMemoryStats(ledger)

\* C12. After the ledger connection failed at initialization (contract = null)
\* a write of the registry client (indexMemory, batchIndexMemories,
\* verifyMemory) writes nothing to the ledger and returns success = false, and
\* a read returns an empty result.
C12_DegradedWritesAreFailures ==
  /\ (ret.path = "degraded"
        /\ ret.op \in {"addToOnChainIndex", "batchIndexOnChain", "verifyMemory"}) =>
       ~ret.ok /\ ret.successes = 0 /\ ~ret.tx
  /\ (ret.path = "degraded" /\ ret.op = "queryMemories") => ret.chainSids = {}

\* The initialization has ended without a ledger connection.
EndedWithoutConnection == initializationPromise = "resolved" /\ ~contract

\* C13. Degraded mode is sticky: once the initialization has ended without a
\* ledger connection, no operation of the indexer calls initialize() again or
\* makes the contract available; the registry client stays as it is.
C13_DegradedIsSticky ==
  [][EndedWithoutConnection =>
       /\ EndedWithoutConnection'
       /\ initializeCalls' = initializeCalls
       /\ zgIndexingService' = zgIndexingService /\ config' = config
       /\ \A c \in inflight' \ inflight : ~c.net]_vars

\* A verification settled in degraded mode, by a call that did not open the
\* connection itself.
C13_Witness ==
  /\ EndedWithoutConnection /\ zgIndexingService /\ config
  /\ ret.op = "verifyMemory" /\ ret.path = "degraded" /\ ~ret.net

\* C14. Single shared initialization: initialize() is called at most once,
\* and a call suspended at ensureInitialized resumes only when that one
\* attempt has ended.
C14_SingleSharedInitialization ==
  [][/\ initializeCalls' <= 1
     /\ inflight' # inflight /\ inflight' \subseteq inflight =>
          initializationPromise = "resolved" /\ initializeCalls = 1]_vars

\* Two calls are suspended on the one pending attempt.
C14_Witness ==
  /\ initializationPromise = "pending" /\ initializeCalls = 1
  /\ Cardinality(inflight) = 2
  /\ \E c \in inflight : c.net
  /\ \E c \in inflight : ~c.net

\* C15. addToIndex never fails its caller: when a write to the Local Metadata
\* Index or the Local Vector Index throws, addToIndex still returns normally.
C15_AddToIndexNeverFailsCaller ==
  ret.op = "addToIndex" => ~ret.threw /\ (ret.stored \/ ~ret.spawned \/ NoLocalStorage)

\* addToIndex returned after the write of the vector list threw.
C15_Witness ==
  /\ ret.op = "addToIndex" /\ ~NoLocalStorage
  /\ ret.stored /\ ~ret.spawned /\ ret.vector # <<>> /\ ~ret.threw

\* C16. A failed write of the Local Metadata Index or the Local Vector Index
\* in addToIndex reaches the caller of addToIndex as an error.
C16_LocalFailurePropagates ==
  (ret.op = "addToIndex" /\ ~NoLocalStorage /\ ~ret.spawned) => ret.threw

\* C17. Ledger commit is idempotent-reject: commitMemoryHash of a hash that
\* has a record, active or revoked, fails and leaves the ledger unchanged.
C17_CommitRejectsExistingHash ==
  [][(ret'.op = "commitMemoryHash" /\ ledger.memoryHashes[ret'.hash].hash # None) =>
       ~ret'.ok /\ ledger' = ledger]_vars

\* A commit of a hash whose record is revoked was rejected.
C17_Witness ==
  /\ ret.op = "commitMemoryHash" /\ ret.hadHash /\ ~ret.ok
  /\ ledger.memoryHashes[ret.hash].hash = ret.hash
  /\ ~ledger.memoryHashes[ret.hash].isActive

\* C18. Only the agent that committed a hash can revoke it: a revoke by
\* another sender fails and changes nothing; a successful revoke sets
\* isActive to false and changes nothing else (the record, allMemoryHashes and
\* the indices stay).
C18_RevokeOnlyByCommitter ==
  [][ret'.op = "revokeMemoryHash" =>
       LET h == ret'.hash IN
       /\ ret'.sender # ledger.memoryHashes[h].agent => ~ret'.ok
       /\ ~ret'.ok => ledger' = ledger
       /\ ret'.ok =>
            /\ ~ledger'.memoryHashes[h].isActive
            /\ ledger.memoryHashes[h].isActive
            /\ ledger' = [ledger EXCEPT !.memoryHashes[h].isActive = FALSE]
            /\ ledger'.memoryHashes[h].hash = h
            /\ ledger'.allMemoryHashes = ledger.allMemoryHashes]_vars

\* The committer revoked its hash: the record is inactive and still listed.
C18_Witness ==
  /\ ret.op = "revokeMemoryHash" /\ ret.ok
  /\ ledger.memoryHashes[ret.hash].agent = ret.sender
  /\ ~ledger.memoryHashes[ret.hash].isActive
  /\ InSeq(ret.hash, ledger.allMemoryHashes)
  /\ InSeq(ret.hash, ledger.agentMemories[ret.sender])

\* C19. Ledger verify is idempotent: verifyMemoryHash of a hash that is
\* already verified (and active) succeeds and leaves the ledger, and the
\* verified count of getMemoryStats, as they were.
C19_VerifyIdempotent ==
  [][(ret'.op = "verifyMemoryHash" /\ ret'.hash \in ledger.verifiedHashes
        /\ ledger.memoryHashes[ret'.hash].isActive) =>
       /\ ret'.ok
       /\ ledger' = ledger
       /\ GetMemoryStats(ledger').verifiedMemories =
            GetMemoryStats(ledger).verifiedMemories]_vars

\* A second verifyMemoryHash of a hash was mined.
C19_Witness ==
  /\ ret.op = "verifyMemoryHash" /\ ret.ok /\ ret.wasVerified
  /\ ret.hash \in ledger.verifiedHashes
  /\ GetMemoryStats(ledger).verifiedMemories = 1

\* s is a prefix of t.
IsPrefix(s, t) == Len(s) <= Len(t) /\ SubSeq(t, 1, Len(s)) = s

\* C20. The ledger is append-only: in every step allMemoryHashes only grows
\* and the hash, agent, timestamp, content type, size and tags of a recorded
\* hash (one that has a record or is in allMemoryHashes) do not change; removing a memory locally leaves the ledger as it is.
C20_LedgerAppendOnly ==
  [][/\ IsPrefix(ledger.allMemoryHashes, ledger'.allMemoryHashes)
     /\ \A h \in DOMAIN ledger.memoryHashes :
          (ledger.memoryHashes[h].hash # None \/ InSeq(h, ledger.allMemoryHashes)) =>
            /\ ledger'.memoryHashes[h].hash = ledger.memoryHashes[h].hash
            /\ ledger'.memoryHashes[h].agent = ledger.memoryHashes[h].agent
            /\ ledger'.memoryHashes[h].timestamp = ledger.memoryHashes[h].timestamp
            /\ ledger'.memoryHashes[h].contentType = ledger.memoryHashes[h].contentType
            /\ ledger'.memoryHashes[h].size = ledger.memoryHashes[h].size
            /\ ledger'.memoryHashes[h].tags = ledger.memoryHashes[h].tags
     /\ ret'.op = "removeFromIndex" => ledger' = ledger]_vars

\* A memory that was committed by the indexer was removed locally: its
\* record is still on the ledger.
C20_Witness ==
  /\ ret.op = "removeFromIndex" /\ ret.id = "m1"
  /\ "m1" \notin IdsOf(og_memory_index)
  /\ og_index_config["m1"].transactionHash = "t1"
  /\ ledger.memoryHashes["h1"].hash = "h1"
  /\ InSeq("h1", ledger.allMemoryHashes)

\* C21. The storage id -> hash mapping is stable: in every reachable ledger
\* state, for every recorded hash h with storage id s, the lookup of s in
\* zgStorageToHash returns h (no call about another hash redirects or deletes
\* the mapping of s).
C21_StorageIdMappingStable ==
  \A h \in Hashes :
    LET r == ledger.memoryHashes[h]
    IN (r.hash # None /\ r.zgStorageId # None) =>
         ledger.zgStorageToHash[r.zgStorageId] = h

\* C22. Blob store fallback: storeEmbedding tries Walrus first; whenever the
\* initialization or the upload of Walrus fails while 0G is available and its
\* upload works, storeEmbedding succeeds with the storage id 0G returned; it
\* fails only if both backends fail.
C22_BlobStoreFallback ==
  ret.op = "storeEmbedding" =>
    LET b == ret.blob
        primaryFailed == ~b.walrusInitOk \/ ~b.walrusUploadOk
        fallbackWorks == b.zgAvailable /\ b.zgUploadOk
    IN /\ (primaryFailed /\ fallbackWorks) =>
            ret.ok /\ b.backend = "0g" /\ b.storageId \in {ZgRootHash(c) : c \in Contents}
       /\ ~ret.ok => primaryFailed /\ ~fallbackWorks

\* C23. An embedding failure aborts the enclosing store operation: when a
\* generateEmbedding of MemoryManager.storeEmbedding or of
\* MemoryService.createMemory throws, the operation rejects and its memory is
\* neither in the cache of the service nor in the Local Metadata Index; and no
\* entry of the Local Vector Index is a zero vector put in place of a missing
\* embedding.
C23_EmbeddingFailureAborts ==
  /\ (ret.op \in {"MemoryManager.storeEmbedding", "createMemory"} /\ ret.embedFailed) =>
       /\ ret.threw
       /\ ret.id \notin IdsOf(memories)
       /\ ret.id \notin IdsOf(og_memory_index)
  /\ \A i \in 1..Len(og_vector_index) : og_vector_index[i].vector # ZeroVector

\* C24. The two local indices stay keyed by the same ids: in every state
\* reached by addToIndex and removeFromIndex calls, every id of the Local
\* Vector Index is an id of the Local Metadata Index, and after
\* removeFromIndex(id) the id is in neither index.
C24_LocalIndicesSameIds ==
  /\ IdsOf(og_vector_index) \subseteq IdsOf(og_memory_index)
  /\ ret.op = "removeFromIndex" =>
       ret.id \notin IdsOf(og_memory_index) \cup IdsOf(og_vector_index)

\* A memory that was in both indices was removed.
C24_Witness ==
  /\ ret.op = "removeFromIndex" /\ ret.removed = {"metadata", "vector"}
  /\ ret.id \notin IdsOf(og_memory_index) \cup IdsOf(og_vector_index)

\* The memory records the program holds: the cache of the memory service and
\* the Local Metadata Index.
MemoryRecords ==
  {memories[i] : i \in 1..Len(memories)}
    \cup {og_memory_index[i] : i \in 1..Len(og_memory_index)}

\* C25. A record carries a transactionHash only after its on-chain commit
\* succeeded: in every reachable state, a memory record with a transactionHash
\* has its content hash recorded on the ledger, and so has an index-config
\* entry with a transactionHash.
C25_TransactionHashOnlyAfterCommit ==
  /\ \A m \in MemoryRecords :
       m.transactionHash # None => ledger.memoryHashes[Keccak(m.content)].hash # None
  /\ \A id \in Ids :
       og_index_config[id].transactionHash # None =>
         /\ og_index_config[id].contractHash \in Hashes
         /\ ledger.memoryHashes[og_index_config[id].contractHash].hash # None

\* The tags the ledger reported to a getAllTags call that settled: allTags
\* when the read succeeded, none otherwise.
ReportedTags ==
  IF ret.path = "chainOk" THEN {ledger.allTags[i] : i \in 1..Len(ledger.allTags)} ELSE {}

\* C26. getAllTags returns exactly the union of the tags of the records it
\* read from the Local Metadata Index and the tags the ledger reported, each
\* tag once, in ascending order of the strings; when the ledger is unavailable
\* or its read fails, it returns the local tags alone.
C26_AllTagsSortedUnion ==
  ret.op = "getAllTags" =>
    /\ Range(ret.result) = LocalTags(ret.local) \cup ReportedTags
    /\ \A i, j \in 1..Len(ret.result) : i < j => TagLess(ret.result[i], ret.result[j])
    /\ ret.path # "chainOk" => Range(ret.result) = LocalTags(ret.local)

\* getAllTags returned several tags, one of them known to the ledger only.
C26_Witness ==
  /\ ret.op = "getAllTags" /\ ret.path = "chainOk"
  /\ Len(ret.result) >= 2
  /\ ReportedTags \ LocalTags(ret.local) # {}

\* C27. Cosine similarity is the number 0 whenever the two vectors differ in
\* length or one of them has zero norm (the empty vector included).
C27_CosineZeroWhenNotComparable ==
  ret.op = "cosineSimilarity" =>
    ((Len(ret.vector) # Len(ret.other)
        \/ DotProduct(ret.vector, ret.vector) = 0
        \/ DotProduct(ret.other, ret.other) = 0) =>
       ret.similarity.kind = "finite" /\ ret.similarity.x = 0)

\* The records a settled indexing call was about.
IndexedRecords ==
  IF ret.op = "addToOnChainIndex" THEN {ret.mem}
  ELSE {BatchOf(ret.batch)[i] : i \in 1..Len(BatchOf(ret.batch))}

\* C28. Upload precedes commit in indexMemory and batchIndexMemories: when a
\* commit is issued for a record whose storage id is missing or is its local
\* id, the content was uploaded in the same call and the commit carries the id
\* the upload returned; no commit carries an empty storage id or a local id;
\* and when the upload fails no commit is issued.
C28_UploadPrecedesCommit ==
  ret.op \in {"addToOnChainIndex", "batchIndexOnChain"} =>
    /\ \A s \in ret.commitSids : s # None /\ s \notin Ids
    /\ ~ret.tx => ret.commitSids = {}
    /\ ret.tx =>
         \A m \in IndexedRecords :
           IF StorageIdOf(m) = None \/ StorageIdOf(m) = m.id
           THEN ret.uploads >= 1 /\ UploadDataId(m.content) \in ret.commitSids
           ELSE StorageIdOf(m) \in ret.commitSids
    /\ ret.path = "uploadFailed" => ~ret.tx /\ ret.uploads >= 1

\* A record that had its local id for storage id was uploaded and committed
\* with the id of the upload.
C28_Witness ==
  /\ ret.op = "addToOnChainIndex" /\ ret.mem = RC
  /\ ret.path = "chainOk" /\ ret.uploads = 1
  /\ ret.commitSids = {UploadDataId("c2")}
  /\ ledger.memoryHashes["h2"].zgStorageId = UploadDataId("c2")

\* The suspended on-chain phases of addToIndex calls.
PendingAdds(pending) == {c \in pending : c.op = "add"}

\* C29. No automatic retry: an addToIndex call (alone or inside createMemory)
\* suspends one on-chain phase for its record, nothing else does, and the step
\* in which that phase makes its attempt removes it from the suspended calls,
\* whether the attempt committed or failed; so after a failed attempt no commit
\* is issued for the record unless a caller starts a new call.
C29_NoAutomaticRetry ==
  [][/\ (ret'.op = "addToOnChainIndex" /\ ret' # ret) =>
          \E c \in PendingAdds(inflight) :
            c.mem = ret'.mem /\ inflight' = inflight \ {c}
     /\ \A c \in PendingAdds(inflight') \ PendingAdds(inflight) :
          /\ ret'.op \in {"addToIndex", "createMemory"}
          /\ c.mem = ret'.mem
          /\ PendingAdds(inflight') \ PendingAdds(inflight) = {c}]_vars

\* The commit attempt of an addToIndex call failed and no on-chain phase is
\* pending for its record.
C29_Witness ==
  /\ ret.op = "addToOnChainIndex" /\ ret.path = "chainErr" /\ ret.tx
  /\ \A c \in PendingAdds(inflight) : c.mem # ret.mem
  /\ ledger.memoryHashes[Keccak(ret.mem.content)].hash = None

\* C30. The on-chain phase never retracts local availability: a step that is
\* not an addToIndex, createMemory or removeFromIndex call (the end of the
\* ledger initialization, an upload, a commit, a batch commit, a
\* verification, failed or not, and the start of any call) leaves the Local
\* Metadata Index and the Local Vector Index as they are, and with them the
\* records every local filter returns.
C30_OnChainPhaseKeepsLocal ==
  [][ret'.op \notin {"addToIndex", "createMemory", "removeFromIndex"} =>
       /\ og_memory_index' = og_memory_index
       /\ og_vector_index' = og_vector_index
       /\ \A crit \in Criteria :
            LocalFilter(og_memory_index', crit) = LocalFilter(og_memory_index, crit)]_vars

\* The commit of a record failed and a local query still returns the record.
C30_Witness ==
  /\ ret.op = "addToOnChainIndex" /\ ret.path = "chainErr"
  /\ ret.mem \in Range(og_memory_index)
  /\ ret.mem \in Range(LocalFilter(og_memory_index, Crit(NoTag, None, ret.mem.owner, FALSE)))

\* C31. The Local Metadata Index holds at most one entry per id, most recently
\* added first: an add that writes the index puts a record with a new id at
\* the front (the length grows by one) and replaces the entry of a known id in
\* place (the length and the other entries stay).
C31_MetadataIndexUpsert ==
  [][/\ Cardinality(IdsOf(og_memory_index')) = Len(og_memory_index')
     /\ (ret'.op \in {"addToIndex", "createMemory"} /\ ret'.stored) =>
          IF ret'.id \notin IdsOf(og_memory_index)
          THEN og_memory_index' = <<ret'.mem>> \o og_memory_index
          ELSE /\ Len(og_memory_index') = Len(og_memory_index)
               /\ \A i \in 1..Len(og_memory_index) :
                    og_memory_index'[i] =
                      IF og_memory_index[i].id = ret'.id THEN ret'.mem
                      ELSE og_memory_index[i]]_vars

\* m1 was added, committed, and added again with new content: the index holds
\* the one entry of m1, with the new content.
C31_Witness ==
  /\ ret.op = "addToIndex" /\ ret.mem = RB /\ ret.stored
  /\ og_memory_index = <<RB>>
  /\ og_index_config["m1"].contractHash = Keccak(RA.content)

\* C32. The metadata.checksum of every record of the memory service is the
\* content hash of the record's current content, for a record createMemory
\* built and after updateMemory changed its content.
C32_ChecksumIsContentHash ==
  \A i \in 1..Len(memories) :
    memories[i].checksum = GenerateContentHash(memories[i].content)

\* C33. updateMemory(id, updates) leaves the id and the createdAt of the
\* record it updates as they were, whatever fields updates has.
C33_IdAndCreatedAtImmutable ==
  [][(ret'.op = "updateMemory" /\ ret'.ok) =>
       LET i == FindIndex(memories, ret'.id)
       IN /\ memories'[i].id = memories[i].id
          /\ memories'[i].createdAt = memories[i].createdAt]_vars

\* C37. After deleteMemory(id) returned true, the id is in none of the local
\* tiers: the memory list of the service, the Local Metadata Index and the
\* Local Vector Index.
C37_DeleteRemovesFromLocalTiers ==
  (ret.op = "deleteMemory" /\ ret.ok) =>
    /\ ret.id \notin IdsOf(memories)
    /\ ret.id \notin IdsOf(og_memory_index)
    /\ ret.id \notin IdsOf(og_vector_index)

\* The ledger has a record whose zgStorageId is the blob id or the secondary
\* reference of m.
ExistsOnChain(m) ==
  \E h \in Hashes :
    /\ ledger.memoryHashes[h].hash # None
    /\ ledger.memoryHashes[h].zgStorageId \in {m.blobId, m.ipfsHash}

\* C34. A query with onChainOnly returns only memories that exist on-chain,
\* in every outcome: ledger healthy, degraded, not initialized, or the ledger
\* query failing.
C34_OnChainOnlyReturnsOnChain ==
  (ret.op = "queryMemories" /\ ret.crit.onChainOnly) =>
    \A m \in Range(ret.result) : ExistsOnChain(m)

\* The similarity searchByVector computed for the entry of id in the vector
\* index.
SimilarityOfId(id) ==
  CosineSimilarity(ret.vector, og_vector_index[FindIndex(og_vector_index, id)].vector)

\* C35. searchByVector(queryVector, topK) returns at most topK records, each
\* of the Local Metadata Index, in an order of non-increasing cosine
\* similarity to the query, and no indexed record it omits is more similar
\* than one it returns.
C35_SearchTopK ==
  (ret.op = "searchByVector") =>
    LET res == ret.result
        omitted == {m \in Range(og_memory_index) :
                      m.id \in IdsOf(og_vector_index) /\ m \notin Range(res)}
    IN /\ Len(res) <= ret.topK
       /\ \A i \in 1..Len(res) : res[i] \in Range(og_memory_index)
       /\ \A i, j \in 1..Len(res) :
            i < j => ~Greater(SimilarityOfId(res[j].id), SimilarityOfId(res[i].id))
       /\ \A m \in omitted, i \in 1..Len(res) :
            ~Greater(SimilarityOfId(m.id), SimilarityOfId(res[i].id))

\* C36. Without onChainOnly the result of queryMemories depends only on the
\* Local Metadata Index and the criteria: it is the local filter of the index
\* the call read, whatever the ledger holds and whether the ledger query
\* ran, failed or was skipped.
C36_LocalQueryIgnoresLedger ==
  [][/\ \A c \in inflight' \ inflight :
          c.op = "query" => c.local = LocalFilter(og_memory_index, c.crit)
     /\ (ret'.op = "queryMemories" /\ ~ret'.crit.onChainOnly) =>
          /\ ret'.result = ret'.local
          /\ \/ ret'.local = LocalFilter(og_memory_index, ret'.crit)
             \/ \E c \in inflight \ inflight' : c.op = "query" /\ c.local = ret'.local]_vars

\* A query without onChainOnly, answered by the ledger, returned records the
\* on-chain filter would have dropped.
C36_Witness ==
  /\ ret.op = "queryMemories" /\ ~ret.crit.onChainOnly /\ ret.path = "chainOk"
  /\ ret.result # <<>>
  /\ OnChainJoin(ret.local, ret.chainSids) # ret.local

\* C38. Every ledger record is well formed and unique: after any sequence of
\* commitMemoryHash and batchCommitMemoryHashes transactions, every hash of
\* allMemoryHashes is nonzero, has a record with a non-empty storage id, and
\* is in allMemoryHashes exactly once.
C38_RecordsWellFormedUnique ==
  \A i \in 1..Len(ledger.allMemoryHashes) :
    LET h == ledger.allMemoryHashes[i] IN
    /\ h # None
    /\ ledger.memoryHashes[h].zgStorageId # None
    /\ Count(h, ledger.allMemoryHashes) = 1

\* C39. The derived indices of the ledger agree with its records:
\* contentTypeCount[t] is the number of entries of allMemoryHashes whose record
\* has content type t, so that the content-type query fills its array exactly
\* (no write out of range, no zero entry), and allTags holds each tag of every
\* record exactly once.
C39_DerivedIndicesAgree ==
  /\ \A t \in ContentTypes :
       /\ ledger.contentTypeCount[t] = Len(MatchesOfContentType(ledger, t))
       /\ ~ContentTypeQueryReverts(ledger, t)
       /\ HashesByContentType(ledger, t) = MatchesOfContentType(ledger, t)
  /\ \A i \in 1..Len(ledger.allMemoryHashes) :
       LET tags == ledger.memoryHashes[ledger.allMemoryHashes[i]].tags IN
       \A j \in 1..Len(tags) : Count(tags[j], ledger.allTags) = 1

====
